---- MODULE Spec2Model ----
(***************************************************************************)
(* Show tracker backend: the refresh orchestration of functions/src/       *)
(* refresh.ts, the HTTP handlers of functions/src/index.ts and the TVDB    *)
(* client of functions/src/tvdb/client.ts, as a state machine over the     *)
(* Firestore collections they read and write.  Every await of a handler is *)
(* one step of the request that runs it, so requests interleave the way    *)
(* the Functions runtime lets them.                                        *)
(***************************************************************************)
EXTENDS Integers, Sequences, FiniteSets, TLC

\* ------------------------------------------------------------------ bounds
MaxTicks == 2
MaxRequests == 2
MaxAired == 1
MaxResults == 2

\* how many episode toggles a page session makes
MaxToggles == 3

\* how many removals of a show a page session makes
MaxRemovals == 2

\* how many shows a displayed list holds
MaxShown == 3

\* how many search runs a page session starts
MaxRuns == 2

Users == {"u1", "u2"}
Shows == {"s1", "s2"}
Pins == {"p1", "p2"}
Procs == {"r1", "r2"}

\* ------------------------------------------------------- program constants
TOKEN_TTL_DAYS == 25
MANUAL_REFRESH_COOLDOWN_MS == 900000
MS_PER_SECOND == 1000
MS_PER_DAY == 86400000

\* -------------------------------------------------------------------- time
\* A point in time is a calendar day and the milliseconds into it (Date's
\* epoch milliseconds, split so that 25 days ahead stays a machine integer).
NoTime == [d |-> -1, ms |-> 0]
T0 == [d |-> 30, ms |-> 0]

TimeLE(a, b) == a.d < b.d \/ (a.d = b.d /\ a.ms <= b.ms)
TimeLT(a, b) == a.d < b.d \/ (a.d = b.d /\ a.ms < b.ms)

AddMs(t, n) ==
  [d |-> t.d + ((t.ms + n) \div MS_PER_DAY), ms |-> (t.ms + n) % MS_PER_DAY]

AddDays(t, n) == [d |-> t.d + n, ms |-> t.ms]

\* a.getTime() - b.getTime(); differences of two days and more are all
\* reported as two days, which is above every duration the code compares to.
ElapsedMs(a, b) ==
  IF a.d - b.d >= 2 THEN 2 * MS_PER_DAY
  ELSE IF a.d - b.d <= -2 THEN -2 * MS_PER_DAY
  ELSE (a.d - b.d) * MS_PER_DAY + (a.ms - b.ms)

\* Math.ceil(n / 1000) for an integer n
CeilSeconds(n) == (n + (MS_PER_SECOND - 1)) \div MS_PER_SECOND

\* --------------------------------------------------------------- the store
\* Firestore returns the documents of a collection ordered by document id.
UserOrder == <<"u1", "u2">>
ShowOrder == <<"s1", "s2">>

SnapshotDocs(order, present) == SelectSeq(order, LAMBDA x : x \in present)

NoPin == ""
NoToken == 0
LegacyToken == NoToken + 1

VARIABLES
  now,          \* Date.now() and the store's server time
  ticks,        \* how often time has advanced
  requests,     \* how many requests and runs have been started
  users,        \* collection users/{userId} (refresh.ts usersCollection)
  userShows,    \* collection userShows/{userId}/shows/{tvdbId}
  shows,        \* collection shows/{tvdbId} (refresh.ts showsCollection)
  nextToken,    \* the next bearer token the upstream login issues
  upEpisodes,   \* upstream: the number of episodes of each show
  procs,        \* the requests and runs in flight, one record each
  showTracker,       \* collection show-tracker/{userId} (index.ts usersCollection)
  showTrackerShows,  \* collection show-tracker/{userId}/shows/{tvdbId}
  showsCache,        \* collection show-tracker/cache/shows/{tvdbId}
  cacheEpisodes,     \* the ids under show-tracker/cache/shows/{tvdbId}/episodes
  upstreamAtFlag,    \* upstream episode count when hasAllEpisodes was last set
  watchRecords,      \* the ids under show-tracker/{userId}/shows/{showId}/episodes
  episodesByShow,    \* page.tsx: the episodes the page shows and their flags
  toggling,          \* page.tsx: the toggleEpisodeWatched call in flight
  toggled,           \* the toggleEpisodeWatched calls that have returned
  showList,          \* page.tsx: the shows state, the loaded list of shows
  removing,          \* page.tsx: the handleRemoveShow call in flight
  removed,           \* the handleRemoveShow calls that have returned
  functionsBaseUrl,  \* page.tsx: the functions URL, NoUrl without a project id
  showAddDialog,     \* page.tsx: the add-show dialog is open
  searchQuery,       \* page.tsx: the text in the search box
  debouncedSearch,   \* page.tsx: useDebouncedValue(searchQuery, 300)
  debounceTimer,     \* the timeout of useDebouncedValue is pending
  searchResults,     \* page.tsx: the results the dialog lists
  searching,         \* page.tsx: the dialog says "Searching..."
  selectedShow,      \* page.tsx: the result the user chose
  searchError,       \* page.tsx: the error the dialog shows
  searchRuns         \* the runs of the search effect, oldest first

\* the collections only index.ts reads and writes
cacheVars == <<showTracker, showTrackerShows, showsCache, cacheEpisodes, upstreamAtFlag>>

\* the state of the home page and the watch-state records it writes
pageVars == <<watchRecords, episodesByShow, toggling, toggled, showList, removing, removed,
              functionsBaseUrl, showAddDialog, searchQuery, debouncedSearch, debounceTimer,
              searchResults, searching, selectedShow, searchError, searchRuns>>

\* the add-show dialog and its search
searchVars == <<functionsBaseUrl, showAddDialog, searchQuery, debouncedSearch, debounceTimer,
                searchResults, searching, selectedShow, searchError, searchRuns>>

\* the list of shows and the removal of a show
listVars == <<showList, removing, removed>>

\* the collections only refresh.ts and refreshShowsNow read and write
refreshVars == <<ticks, users, userShows, shows, nextToken>>

vars == <<now, ticks, requests, users, userShows, shows, nextToken, upEpisodes, procs,
          showTracker, showTrackerShows, showsCache, cacheEpisodes, upstreamAtFlag,
          watchRecords, episodesByShow, toggling, toggled, showList, removing, removed,
          functionsBaseUrl, showAddDialog, searchQuery, debouncedSearch, debounceTimer,
          searchResults, searching, selectedShow, searchError, searchRuns>>

\* UserAuthData plus the refresh timestamps of users/{userId}
NoUserDoc ==
  [exists |-> FALSE, tvdbPin |-> NoPin, tvdbToken |-> NoToken,
   tvdbTokenExpiresAt |-> NoTime, lastManualRefreshAt |-> NoTime,
   lastScheduledRefreshAt |-> NoTime]

NoAuth == [tvdbPin |-> NoPin, tvdbToken |-> NoToken, tvdbTokenExpiresAt |-> NoTime]

NoShowDoc == [exists |-> FALSE, title |-> "", updatedAt |-> NoTime, latestEpisodeAirDate |-> 0]

NoUserShowDoc == [exists |-> FALSE, lastRefreshAt |-> NoTime]

\* show-tracker/{userId}: the PIN saveTvdbPin stores
NoTrackerDoc ==
  [exists |-> FALSE, tvdbPin |-> NoPin, tvdbToken |-> NoToken, tvdbTokenExpiresAt |-> NoTime]

\* attentionState of a per-user show document that has none
NoState == ""

\* show-tracker/{userId}/shows/{tvdbId}
NoTrackedShowDoc ==
  [exists |-> FALSE, title |-> "", addedAt |-> NoTime, showRef |-> "", lastCachedAt |-> NoTime,
   attentionState |-> NoState]

\* show-tracker/cache/shows/{tvdbId}
NoCacheDoc ==
  [exists |-> FALSE, title |-> "", updatedAt |-> NoTime, hasAllEpisodes |-> FALSE,
   episodesUpdatedAt |-> NoTime]

\* --------------------------------------------------------------- upstream
\* The provider serves the episodes 1..n of a show in pages of UPSTREAM_PAGE
\* episodes; episode e was aired on day e.
UPSTREAM_PAGE == 50

Min(a, b) == IF a <= b THEN a ELSE b

\* the episode ids of page `page` (0-based) of a show with n episodes
EpisodePage(n, page) == (page * UPSTREAM_PAGE + 1) .. Min(n, (page + 1) * UPSTREAM_PAGE)

SetMax(S) == CHOOSE x \in S : \A y \in S : y <= x

\* ------------------------------------------------------------- refresh.ts
\* (variant: a token that expires at this very millisecond still counts as good)
isExpiredLate(ts, at) == IF ts = NoTime THEN TRUE ELSE TimeLT(ts, at)

isExpired(ts, at) == IF ts = NoTime THEN TRUE ELSE TimeLE(ts, at)

computeExpiry(at) == AddDays(at, TOKEN_TTL_DAYS)

getUserAuth(userId) ==
  IF users[userId].exists
  THEN [tvdbPin |-> users[userId].tvdbPin, tvdbToken |-> users[userId].tvdbToken,
        tvdbTokenExpiresAt |-> users[userId].tvdbTokenExpiresAt]
  ELSE NoAuth

\* pinFromRequest ?? auth.tvdbPin
pinToUseOf(pinFromRequest, auth) ==
  IF pinFromRequest # NoPin THEN pinFromRequest ELSE auth.tvdbPin

\* !auth.tvdbToken || isExpired(auth.tvdbTokenExpiresAt)
needsLogin(auth, at) ==
  auth.tvdbToken = NoToken \/ isExpired(auth.tvdbTokenExpiresAt, at)

\* (variant: the PIN is not checked before the client is built)
prepareOutcomeUnchecked(pinFromRequest, auth, at) ==
  IF needsLogin(auth, at) THEN "login" ELSE "ready"

\* prepareClientForUser after the credentials are read: it throws
\* MissingPinError, logs in, or returns the client with the cached token
prepareOutcome(pinFromRequest, auth, at) ==
  IF pinToUseOf(pinFromRequest, auth) = NoPin THEN "MissingPinError"
  ELSE IF needsLogin(auth, at) THEN "login"
  ELSE "ready"

persistAuth(doc, pin, token, at) ==
  [doc EXCEPT !.exists = TRUE, !.tvdbPin = pin, !.tvdbToken = token,
              !.tvdbTokenExpiresAt = computeExpiry(at)]

\* (variant: every refresh is stamped as a manual one)
\* the alternative in which the completion of a refresh is not recorded
recordRefreshTimestampNone(doc, trigger, at) == doc

\* the alternative in which a refresh stamps both fields
recordRefreshTimestampBoth(doc, trigger, at) ==
  [doc EXCEPT !.exists = TRUE, !.lastManualRefreshAt = at, !.lastScheduledRefreshAt = at]

recordRefreshTimestampManual(doc, trigger, at) ==
  [doc EXCEPT !.exists = TRUE, !.lastManualRefreshAt = at]

recordRefreshTimestamp(doc, trigger, at) ==
  IF trigger = "scheduled"
  THEN [doc EXCEPT !.exists = TRUE, !.lastScheduledRefreshAt = at]
  ELSE [doc EXCEPT !.exists = TRUE, !.lastManualRefreshAt = at]

\* (variant: every failure is an internal error)
mapRefreshErrorInternal(err) == [code |-> "REFRESH_FAILED", status |-> 500]

mapRefreshErrorToResponse(err) ==
  IF err = "MissingPinError"
  THEN [code |-> "MISSING_PIN", status |-> 400]
  ELSE [code |-> "REFRESH_FAILED", status |-> 500]

\* the summary refreshUser returns
refreshUserSummary(updatedShows, updatedEpisodes) ==
  [updatedShows |-> updatedShows, updatedEpisodes |-> updatedEpisodes, failures |-> 0]

\* latestEpisodeAirDate: episodes.map(airDate).filter(Boolean).sort().at(-1) ?? null
latestEpisodeAirDate(episodes) == IF episodes = {} THEN 0 ELSE SetMax(episodes)

\* ------------------------------------------------------------ the requests
\* One record per request or run: its position, the locals of the code it
\* is in, its response, and the log of the calls it has made.
NoResponse == [status |-> 0, code |-> "", retryAfter |-> 0,
               updatedShows |-> 0, updatedEpisodes |-> 0, failures |-> 0, episodes |-> {},
               show |-> [id |-> "", name |-> ""], results |-> <<>>]

\* req.query.season absent
NoSeason == -1

IdleProc ==
  [op |-> "idle", pc |-> "idle", userId |-> "u1", pin |-> NoPin, trigger |-> "manual",
   lastManual |-> NoTime, throttleAt |-> NoTime, checkedAt |-> NoTime, persistedAt |-> NoTime,
   auth |-> NoAuth, pinToUse |-> NoPin, token |-> NoToken,
   docs |-> <<>>, listed |-> <<>>, episodes |-> {},
   updatedShows |-> 0, updatedEpisodes |-> 0,
   userDocs |-> <<>>, enumerated |-> <<>>, totalShows |-> 0, totalEpisodes |-> 0, failures |-> 0,
   logged |-> <<>>,
   tvdbId |-> "", seasonNumber |-> NoSeason, hasAllEpisodes |-> FALSE,
   page |-> 0, all |-> <<>>, chunks |-> <<>>, read |-> <<>>,
   keyOk |-> TRUE, bearerOk |-> TRUE, query |-> <<>>, data |-> <<>>,
   calls |-> <<>>, resp |-> NoResponse]

\* an entry of the call log: the call, its user and show, whether it returned
Call(kind, userId, tvdbId, ok, n) ==
  [kind |-> kind, userId |-> userId, tvdbId |-> tvdbId, ok |-> ok, n |-> n]

Logged(r, call) == [r EXCEPT !.calls = Append(@, call)]

Respond(r, status, code) ==
  [r EXCEPT !.pc = "done", !.resp = [NoResponse EXCEPT !.status = status, !.code = code]]

\* refreshAllUsers: the loop moves to the next enumerated user, or returns
nextUser(r) ==
  IF r.userDocs = <<>>
  THEN [r EXCEPT !.pc = "done",
                 !.resp = [NoResponse EXCEPT !.updatedShows = r.totalShows,
                                             !.updatedEpisodes = r.totalEpisodes,
                                             !.failures = r.failures]]
  ELSE [r EXCEPT !.pc = "prepare", !.userId = Head(r.userDocs), !.userDocs = Tail(r.userDocs),
                 !.auth = NoAuth, !.pinToUse = NoPin, !.token = NoToken,
                 !.checkedAt = NoTime, !.persistedAt = NoTime,
                 !.docs = <<>>, !.listed = <<>>, !.episodes = {},
                 !.updatedShows = 0, !.updatedEpisodes = 0]

\* (variant: the first failing user ends the run)
skipUserEndsRun(r, err) ==
  nextUser([r EXCEPT !.failures = @ + 1, !.userDocs = <<>>,
                     !.logged = Append(@, [userId |-> r.userId,
                                           code |-> IF err = "MissingPinError"
                                                    THEN "MISSING_PIN"
                                                    ELSE "REFRESH_USER_ERROR"])])

\* refreshAllUsers' catch block: one more failure, a log line, the next user
skipUser(r, err) ==
  nextUser([r EXCEPT !.failures = @ + 1,
                     !.logged = Append(@, [userId |-> r.userId,
                                           code |-> IF err = "MissingPinError"
                                                    THEN "MISSING_PIN"
                                                    ELSE "REFRESH_USER_ERROR"])])

\* refreshAllUsers: the sums are added after recordRefreshTimestamp returned
addUser(r) ==
  nextUser([r EXCEPT !.totalShows = @ + r.updatedShows,
                     !.totalEpisodes = @ + r.updatedEpisodes])

\* an exception leaving prepareClientForUser, refreshUserShows or
\* recordRefreshTimestamp: refreshShowsNow maps it to a response,
\* refreshAllUsers counts it and goes on
thrown(r, err) ==
  IF r.op = "refreshShowsNow"
  THEN Respond(r, mapRefreshErrorToResponse(err).status, mapRefreshErrorToResponse(err).code)
  ELSE skipUser(r, err)

\* refreshUserShows: the loop moves to the next document, or returns
nextShow(r) ==
  IF Len(r.docs) <= 1
  THEN [r EXCEPT !.pc = "recordRefresh", !.docs = <<>>, !.episodes = {}]
  ELSE [r EXCEPT !.pc = "fetchShow", !.docs = Tail(@), !.episodes = {}]

\* (variant: the first failing show ends the loop)
showFailedEndsLoop(r) == [r EXCEPT !.pc = "recordRefresh", !.docs = <<>>, !.episodes = {}]

\* refreshUserShows' catch block: a warning is logged, the loop goes on
showFailed(r) == nextShow(r)

\* refreshUserShows: both counters move after the second write returned
countShow(r) ==
  [r EXCEPT !.updatedShows = @ + 1, !.updatedEpisodes = @ + Cardinality(r.episodes)]

\* --------------------------------------------------- index.ts refreshShowsNow
\* (variant: Math.floor in place of Math.ceil)
retryAfterFloor(diff) == (MANUAL_REFRESH_COOLDOWN_MS - diff) \div MS_PER_SECOND

\* Math.ceil((MANUAL_REFRESH_COOLDOWN_MS - diff) / 1000)
retryAfterOf(diff) == CeilSeconds(MANUAL_REFRESH_COOLDOWN_MS - diff)

\* the alternative in which the 15-minute mark itself is still throttled
throttledAtMark(lastManual, at) ==
  lastManual # NoTime /\ ElapsedMs(at, lastManual) <= MANUAL_REFRESH_COOLDOWN_MS

\* the alternative in which no request is ever within the cooldown
throttledNever(lastManual, at) == FALSE

\* lastManual && Date.now() - lastManual < MANUAL_REFRESH_COOLDOWN_MS
throttled(lastManual, at) ==
  lastManual # NoTime /\ ElapsedMs(at, lastManual) < MANUAL_REFRESH_COOLDOWN_MS

\* A POST arrives; the API key is looked up and the bearer token is verified
\* before anything is read.
StartRefreshShowsNow(p, u, pin, keyOk, bearerOk) ==
  LET r == [IdleProc EXCEPT !.op = "refreshShowsNow", !.userId = u, !.pin = pin,
                            !.trigger = "manual", !.keyOk = keyOk, !.bearerOk = bearerOk]
  IN
  /\ procs[p].pc = "idle"
  /\ requests < MaxRequests
  /\ requests' = requests + 1
  /\ procs' = [procs EXCEPT ![p] =
       IF ~keyOk THEN Respond(r, 500, "TheTVDB API key not configured")
       ELSE IF bearerOk THEN [r EXCEPT !.pc = "throttle"]
       ELSE Respond(r, 401, "Unauthorized")]
  /\ UNCHANGED <<cacheVars, pageVars, now, ticks, users, userShows, shows, nextToken, upEpisodes>>

\* The per-user throttle: lastManualRefreshAt is read and compared to now.
Throttle(p) ==
  LET r == procs[p]
      lastManual == IF users[r.userId].exists
                    THEN users[r.userId].lastManualRefreshAt ELSE NoTime
      seen == [r EXCEPT !.lastManual = lastManual, !.throttleAt = now]
  IN /\ r.pc = "throttle"
     /\ procs' = [procs EXCEPT ![p] =
          IF throttled(lastManual, now)
          THEN [seen EXCEPT !.pc = "done",
                  !.resp = [NoResponse EXCEPT !.status = 429,
                              !.code = "Too many refresh requests",
                              !.retryAfter = retryAfterOf(ElapsedMs(now, lastManual))]]
          ELSE [seen EXCEPT !.pc = "recordRequest"]]
     /\ UNCHANGED <<cacheVars, pageVars, now, ticks, requests, users, userShows, shows, nextToken, upEpisodes>>

\* "Record the manual refresh request time up front."
RecordRequestTime(p) ==
  LET r == procs[p]
  IN /\ r.pc = "recordRequest"
     /\ users' = [users EXCEPT ![r.userId] =
                    [@ EXCEPT !.exists = TRUE, !.lastManualRefreshAt = now]]
     /\ procs' = [procs EXCEPT ![p] =
                    Logged([r EXCEPT !.pc = "prepare"],
                           Call("setLastManualRefreshAt", r.userId, "", TRUE, 0))]
     /\ UNCHANGED <<cacheVars, pageVars, now, ticks, requests, userShows, shows, nextToken, upEpisodes>>

\* ----------------------------------------------- refresh.ts, step by step
\* prepareClientForUser up to its first upstream call: the credentials are
\* read, the PIN is resolved and the cached token is judged.
PrepareClientForUser(p) ==
  LET r == procs[p]
      auth == getUserAuth(r.userId)
      pinToUse == pinToUseOf(r.pin, auth)
      read == Logged([r EXCEPT !.auth = auth, !.pinToUse = pinToUse,
                               !.token = auth.tvdbToken, !.checkedAt = now],
                     Call("getUserAuth", r.userId, pinToUse, TRUE, 0))
  IN /\ r.pc = "prepare"
     /\ \E ok \in BOOLEAN :
          procs' = [procs EXCEPT ![p] =
            IF ~ok
            THEN thrown(Logged(r, Call("getUserAuth", r.userId, "", FALSE, 0)), "Error")
            ELSE IF prepareOutcome(r.pin, auth, now) = "MissingPinError"
            THEN thrown([read EXCEPT !.token = NoToken], "MissingPinError")
            ELSE IF prepareOutcome(r.pin, auth, now) = "login"
            THEN [read EXCEPT !.pc = "login"]
            ELSE [read EXCEPT !.pc = "listShows"]]
     /\ UNCHANGED <<cacheVars, pageVars, now, ticks, requests, users, userShows, shows, nextToken, upEpisodes>>

\* client.login(): the upstream issues a new token, or rejects the call
Login(p) ==
  LET r == procs[p]
  IN /\ r.pc = "login"
     /\ \E ok \in BOOLEAN :
          IF ok
          THEN /\ procs' = [procs EXCEPT ![p] =
                    Logged([r EXCEPT !.pc = "persistAuth", !.token = nextToken],
                           Call("login", r.userId, r.pinToUse, TRUE, nextToken))]
               /\ nextToken' = nextToken + 1
          ELSE /\ procs' = [procs EXCEPT ![p] =
                    thrown(Logged(r, Call("login", r.userId, r.pinToUse, FALSE, 0)), "Error")]
               /\ UNCHANGED nextToken
     /\ UNCHANGED <<cacheVars, pageVars, now, ticks, requests, users, userShows, shows, upEpisodes>>

\* persistAuth(userId, pinToUse, token)
PersistAuth(p) ==
  LET r == procs[p]
  IN /\ r.pc = "persistAuth"
     /\ \E ok \in BOOLEAN :
          IF ok
          THEN /\ users' = [users EXCEPT ![r.userId] = persistAuth(@, r.pinToUse, r.token, now)]
               /\ procs' = [procs EXCEPT ![p] =
                    Logged([r EXCEPT !.pc = "listShows", !.persistedAt = now],
                           Call("persistAuth", r.userId, r.pinToUse, TRUE, r.token))]
          ELSE /\ procs' = [procs EXCEPT ![p] =
                    thrown(Logged(r, Call("persistAuth", r.userId, r.pinToUse, FALSE, r.token)),
                           "Error")]
               /\ UNCHANGED users
     /\ UNCHANGED <<cacheVars, pageVars, now, ticks, requests, userShows, shows, nextToken, upEpisodes>>

\* refreshUserShows: userShowsCollection(userId).get()
ListUserShows(p) ==
  LET r == procs[p]
      docs == SnapshotDocs(ShowOrder, {s \in Shows : userShows[r.userId][s].exists})
      listed == Logged([r EXCEPT !.docs = docs, !.listed = docs,
                                 !.updatedShows = 0, !.updatedEpisodes = 0],
                       Call("listUserShows", r.userId, "", TRUE, Len(docs)))
  IN /\ r.pc = "listShows"
     /\ \E ok \in BOOLEAN :
          procs' = [procs EXCEPT ![p] =
            IF ~ok
            THEN thrown(Logged(r, Call("listUserShows", r.userId, "", FALSE, 0)), "Error")
            ELSE IF docs = <<>>
            THEN [listed EXCEPT !.pc = "recordRefresh"]
            ELSE [listed EXCEPT !.pc = "fetchShow"]]
     /\ UNCHANGED <<cacheVars, pageVars, now, ticks, requests, users, userShows, shows, nextToken, upEpisodes>>

\* client.fetchShow(tvdbId)
FetchShow(p) ==
  LET r == procs[p]
      tvdbId == Head(r.docs)
  IN /\ r.pc = "fetchShow"
     /\ \E ok \in BOOLEAN :
          procs' = [procs EXCEPT ![p] =
            IF ok
            THEN Logged([r EXCEPT !.pc = "fetchEpisodes"],
                        Call("fetchShow", r.userId, tvdbId, TRUE, 0))
            ELSE showFailed(Logged(r, Call("fetchShow", r.userId, tvdbId, FALSE, 0)))]
     /\ UNCHANGED <<cacheVars, pageVars, now, ticks, requests, users, userShows, shows, nextToken, upEpisodes>>

\* client.fetchEpisodes(tvdbId): page 0 of the show's episodes
FetchEpisodes(p) ==
  LET r == procs[p]
      tvdbId == Head(r.docs)
      episodes == EpisodePage(upEpisodes[tvdbId], 0)
  IN /\ r.pc = "fetchEpisodes"
     /\ \E ok \in BOOLEAN :
          procs' = [procs EXCEPT ![p] =
            IF ok
            THEN Logged([r EXCEPT !.pc = "writeShow", !.episodes = episodes],
                        Call("fetchEpisodes", r.userId, tvdbId, TRUE, Cardinality(episodes)))
            ELSE showFailed(Logged(r, Call("fetchEpisodes", r.userId, tvdbId, FALSE, 0)))]
     /\ UNCHANGED <<cacheVars, pageVars, now, ticks, requests, users, userShows, shows, nextToken, upEpisodes>>

\* showsCollection.doc(tvdbId).set({...}, { merge: true })
WriteShow(p) ==
  LET r == procs[p]
      tvdbId == Head(r.docs)
  IN /\ r.pc = "writeShow"
     /\ \E ok \in BOOLEAN :
          IF ok
          THEN /\ shows' = [shows EXCEPT ![tvdbId] =
                    [@ EXCEPT !.exists = TRUE, !.title = tvdbId, !.updatedAt = now,
                              !.latestEpisodeAirDate = latestEpisodeAirDate(r.episodes)]]
               /\ procs' = [procs EXCEPT ![p] =
                    Logged([r EXCEPT !.pc = "writeUserShow"],
                           Call("setShow", r.userId, tvdbId, TRUE, 0))]
          ELSE /\ procs' = [procs EXCEPT ![p] =
                    showFailed(Logged(r, Call("setShow", r.userId, tvdbId, FALSE, 0)))]
               /\ UNCHANGED shows
     /\ UNCHANGED <<cacheVars, pageVars, now, ticks, requests, users, userShows, nextToken, upEpisodes>>

\* userShowsCollection(userId).doc(tvdbId).set({ lastRefreshAt }, { merge: true })
WriteUserShow(p) ==
  LET r == procs[p]
      tvdbId == Head(r.docs)
  IN /\ r.pc = "writeUserShow"
     /\ \E ok \in BOOLEAN :
          IF ok
          THEN /\ userShows' = [userShows EXCEPT ![r.userId][tvdbId] =
                    [@ EXCEPT !.exists = TRUE, !.lastRefreshAt = now]]
               /\ procs' = [procs EXCEPT ![p] =
                    nextShow(countShow(Logged(r, Call("setUserShow", r.userId, tvdbId, TRUE, 0))))]
          ELSE /\ procs' = [procs EXCEPT ![p] =
                    showFailed(Logged(r, Call("setUserShow", r.userId, tvdbId, FALSE, 0)))]
               /\ UNCHANGED userShows
     /\ UNCHANGED <<cacheVars, pageVars, now, ticks, requests, users, shows, nextToken, upEpisodes>>

\* recordRefreshTimestamp(userId, trigger), then refreshUser returns its
\* summary to refreshShowsNow, or refreshAllUsers adds the user's counts
RecordRefreshTimestamp(p) ==
  LET r == procs[p]
      summary == refreshUserSummary(r.updatedShows, r.updatedEpisodes)
  IN /\ r.pc = "recordRefresh"
     /\ \E ok \in BOOLEAN :
          IF ok
          THEN /\ users' = [users EXCEPT ![r.userId] = recordRefreshTimestamp(@, r.trigger, now)]
               /\ procs' = [procs EXCEPT ![p] =
                    LET w == Logged(r, Call("recordRefreshTimestamp", r.userId, r.trigger, TRUE, 0))
                    IN IF r.op = "refreshShowsNow"
                       THEN [w EXCEPT !.pc = "done",
                               !.resp = [NoResponse EXCEPT !.status = 200, !.code = "ok",
                                           !.updatedShows = summary.updatedShows,
                                           !.updatedEpisodes = summary.updatedEpisodes,
                                           !.failures = summary.failures]]
                       ELSE addUser(w)]
          ELSE /\ procs' = [procs EXCEPT ![p] =
                    thrown(Logged(r, Call("recordRefreshTimestamp", r.userId, r.trigger, FALSE, 0)),
                           "Error")]
               /\ UNCHANGED users
     /\ UNCHANGED <<cacheVars, pageVars, now, ticks, requests, userShows, shows, nextToken, upEpisodes>>

\* refreshShowsScheduled: refreshAllUsers enumerates usersCollection (one
\* timer-triggered run)
StartRefreshAllUsers(p) ==
  LET docs == SnapshotDocs(UserOrder, {u \in Users : users[u].exists})
      run == [IdleProc EXCEPT !.op = "refreshAllUsers", !.trigger = "scheduled",
                              !.userDocs = docs, !.enumerated = docs]
  IN /\ procs[p].pc = "idle"
     /\ requests < MaxRequests
     /\ requests' = requests + 1
     /\ procs' = [procs EXCEPT ![p] = nextUser(run)]
     /\ UNCHANGED <<cacheVars, pageVars, now, ticks, users, userShows, shows, nextToken, upEpisodes>>

\* the response has been sent: the slot is free for the next request
Return(p) ==
  /\ procs[p].pc = "done"
  /\ requests < MaxRequests
  /\ procs' = [procs EXCEPT ![p] = IdleProc]
  /\ UNCHANGED <<cacheVars, pageVars, now, ticks, requests, users, userShows, shows, nextToken, upEpisodes>>

\* Time passes between requests and while a request waits for the upstream
\* provider; a store operation takes no time.
TickMs == {999, 899001}
TickDays == {25}

AwaitsUpstream(r) == r.pc \in {"login", "fetchShow", "fetchEpisodes"}

TimePasses ==
  /\ ticks < MaxTicks
  /\ \A p \in Procs : procs[p].pc \in {"idle", "done"} \/ AwaitsUpstream(procs[p])
  /\ ticks' = ticks + 1
  /\ UNCHANGED <<cacheVars, pageVars, requests, users, userShows, shows, nextToken, upEpisodes, procs>>

\* less than the cooldown passes
TickMillis == TimePasses /\ \E n \in TickMs : now' = AddMs(now, n)

\* the lifetime of a token passes
TickDay == TimePasses /\ \E n \in TickDays : now' = AddDays(now, n)

\* ------------------------------------------------- page.tsx, the home page
\* The page of user u1 with show s1 in its list.  The episodes of the show
\* belong to season 1, so once they are loaded the page never loads them
\* again (toggleShowSeasons), and an episode's button is shown only after
\* loadAllEpisodes has returned.

PageUser == "u1"
PageShow == "s1"
Episodes == {"e1", "e2"}

\* the show has an item, and so its buttons, in the displayed list
InList(list, tvdbId) == \E i \in 1..Len(list) : list[i].id = tvdbId

\* episodesByShow[showId] and showLoading[showId] before the show is expanded
NotLoaded ==
  [pc |-> "idle", loading |-> FALSE, loaded |-> FALSE, error |-> FALSE,
   watched |-> [e \in Episodes |-> FALSE]]

NoToggle ==
  [pc |-> "idle", episode |-> "", willWatch |-> FALSE, before |-> {}, unwatched |-> 0]

\* how many of the shown episodes carry watched = false
unwatchedCount(watched) == Cardinality({e \in Episodes : ~watched[e]})

\* the alternative in which unwatching leaves the record in place
writeWatchRecordKeeps(records, episode, willWatch) == records \cup {episode}

\* setDoc(episodeRef, ...) when willWatch, deleteDoc(episodeRef) otherwise;
\* the record's id is the episode's id
writeWatchRecord(records, episode, willWatch) ==
  IF willWatch THEN records \cup {episode} ELSE records \ {episode}

\* upsertEpisodesState after the write: the episode's flag becomes willWatch
markWatched(watched, episode, willWatch) == [watched EXCEPT ![episode] = willWatch]

\* toggleShowSeasons expands the show: nothing is loaded and no load runs,
\* so loadAllEpisodes starts and sets showLoading
LoadAllEpisodes ==
  /\ InList(showList.shows, PageShow)
  /\ ~episodesByShow.loaded
  /\ ~episodesByShow.loading
  /\ episodesByShow.pc = "idle"
  /\ episodesByShow' = [episodesByShow EXCEPT !.pc = "getEpisodes", !.loading = TRUE,
                                              !.error = FALSE]
  /\ UNCHANGED <<cacheVars, refreshVars, now, requests, upEpisodes, procs, searchVars, listVars,
                 watchRecords, toggling, toggled>>

\* await fetch(getEpisodes): a failure ends the load with the error shown
LoadEpisodes ==
  /\ episodesByShow.pc = "getEpisodes"
  /\ \E ok \in BOOLEAN :
       episodesByShow' =
         IF ok THEN [episodesByShow EXCEPT !.pc = "getDocs"]
         ELSE [episodesByShow EXCEPT !.pc = "idle", !.loading = FALSE, !.error = TRUE]
  /\ UNCHANGED <<cacheVars, refreshVars, now, requests, upEpisodes, procs, searchVars, listVars,
                 watchRecords, toggling, toggled>>

\* await getDocs(.../episodes): watched = watchedSet.has(id) for every episode
GetWatchDocs ==
  /\ episodesByShow.pc = "getDocs"
  /\ \E ok \in BOOLEAN :
       episodesByShow' =
         IF ok
         THEN [episodesByShow EXCEPT !.pc = "seasonCount", !.loaded = TRUE,
                                      !.watched = [e \in Episodes |-> e \in watchRecords]]
         ELSE [episodesByShow EXCEPT !.pc = "idle", !.loading = FALSE, !.error = TRUE]
  /\ UNCHANGED <<cacheVars, refreshVars, now, requests, upEpisodes, procs, searchVars, listVars,
                 watchRecords, toggling, toggled>>

\* await setDoc(show-tracker/{uid}/shows/{showId}, { seasonCount }, merge);
\* a failure shows the error and keeps the loaded episodes
SaveSeasonCount ==
  /\ episodesByShow.pc = "seasonCount"
  /\ \E ok \in BOOLEAN :
       /\ episodesByShow' = [episodesByShow EXCEPT !.pc = "idle", !.loading = FALSE,
                                                   !.error = ~ok]
       /\ IF ok
          THEN showTrackerShows' =
                 [showTrackerShows EXCEPT ![PageUser][PageShow].exists = TRUE]
          ELSE UNCHANGED showTrackerShows
  /\ UNCHANGED <<showTracker, showsCache, cacheEpisodes, upstreamAtFlag, searchVars,
                 refreshVars, now, requests, upEpisodes, procs, listVars,
                 watchRecords, toggling, toggled>>

\* a click on the episode's button: willWatch = !episode.watched.  The user
\* clicks again only after the previous toggle has returned.
ToggleEpisodeWatched(episode) ==
  /\ InList(showList.shows, PageShow)
  /\ removing.pc = "idle"
  /\ episodesByShow.loaded
  /\ ~episodesByShow.loading
  /\ toggling.pc = "idle"
  /\ Len(toggled) < MaxToggles
  /\ toggling' = [pc |-> "write", episode |-> episode,
                  willWatch |-> ~episodesByShow.watched[episode],
                  before |-> watchRecords,
                  unwatched |-> unwatchedCount(episodesByShow.watched)]
  /\ UNCHANGED <<cacheVars, refreshVars, now, requests, upEpisodes, procs, searchVars, listVars,
                 watchRecords, episodesByShow, toggled>>

\* what the ghost log keeps of a toggle that has returned
Toggled(ok, watched) ==
  [episode |-> toggling.episode, willWatch |-> toggling.willWatch, ok |-> ok,
   before |-> toggling.before, after |-> watchRecords,
   unwatchedBefore |-> toggling.unwatched, unwatchedAfter |-> unwatchedCount(watched),
   watched |-> watched[toggling.episode]]

\* await setDoc or await deleteDoc; a rejected write goes to the catch,
\* which shows the error and leaves the flags alone
WriteWatchRecord ==
  /\ toggling.pc = "write"
  /\ \E ok \in BOOLEAN :
       IF ok
       THEN /\ watchRecords' =
                 writeWatchRecord(watchRecords, toggling.episode, toggling.willWatch)
            /\ toggling' = [toggling EXCEPT !.pc = "written"]
            /\ UNCHANGED <<episodesByShow, toggled>>
       ELSE /\ episodesByShow' = [episodesByShow EXCEPT !.error = TRUE]
            /\ toggled' = Append(toggled, Toggled(FALSE, episodesByShow.watched))
            /\ toggling' = NoToggle
            /\ UNCHANGED watchRecords
  /\ UNCHANGED <<cacheVars, refreshVars, now, requests, upEpisodes, procs, searchVars, listVars>>

\* the write has resolved: upsertEpisodesState sets the episode's flag
UpsertEpisodesState ==
  /\ toggling.pc = "written"
  /\ LET watched == markWatched(episodesByShow.watched, toggling.episode, toggling.willWatch)
     IN /\ episodesByShow' = [episodesByShow EXCEPT !.watched = watched]
        /\ toggled' = Append(toggled, Toggled(TRUE, watched))
  /\ toggling' = NoToggle
  /\ UNCHANGED <<cacheVars, refreshVars, now, requests, upEpisodes, procs, searchVars, listVars, watchRecords>>

\* ---------------------------------------------- page.tsx, the list of shows
\* attentionState of a per-user show document: one of the three states, any
\* other string, or no value
AttentionStates == {"new-unwatched", "unwatched", "watched"}
OtherState == "paused"

\* the shows state before loadShows has run
NoShows == [pc |-> "mount", snap |-> <<>>, shows |-> <<>>, ordered |-> <<>>, error |-> FALSE]

NoRemoval ==
  [pc |-> "idle", tvdbId |-> "", snap |-> {}, before |-> {}, calls |-> <<>>,
   cache |-> NoCacheDoc]

\* the ids under show-tracker/{uid}/shows/{tvdbId}/episodes
watchRecordsOf(tvdbId) == IF tvdbId = PageShow THEN watchRecords ELSE {}

\* snap.docs: the existing documents of show-tracker/{uid}/shows in id order,
\* each as the UserShow loadShows builds from it
ShowDocs ==
  LET ids == SelectSeq(ShowOrder, LAMBDA s : showTrackerShows[PageUser][s].exists)
  IN [i \in 1..Len(ids) |->
        [id |-> ids[i], attentionState |-> showTrackerShows[PageUser][ids[i]].attentionState]]

\* the alternative in which watched shows come first
priorityWatchedFirst(state) ==
  IF state = "watched" THEN 0
  ELSE IF state = "new-unwatched" THEN 1
  ELSE IF state = "unwatched" THEN 2
  ELSE 3

\* orderedShows: priority(state)
priority(state) ==
  IF state = "new-unwatched" THEN 0
  ELSE IF state = "unwatched" THEN 1
  ELSE IF state = "watched" THEN 2
  ELSE 3

\* Array.prototype.sort is stable: a show goes behind the shows that compare
\* equal to it and were before it
RECURSIVE InsertByPriority(_, _)
InsertByPriority(sorted, show) ==
  IF sorted = <<>> THEN <<show>>
  ELSE IF priority(show.attentionState) - priority(Head(sorted).attentionState) < 0
       THEN <<show>> \o sorted
       ELSE <<Head(sorted)>> \o InsertByPriority(Tail(sorted), show)

RECURSIVE SortByPriority(_)
SortByPriority(list) ==
  IF list = <<>> THEN <<>>
  ELSE InsertByPriority(SortByPriority(SubSeq(list, 1, Len(list) - 1)), list[Len(list)])

\* [...shows].sort((a, b) => priority(a.attentionState) - priority(b.attentionState))
orderedShows(list) == SortByPriority(list)

\* setShows(list), and the memo orderedShows of the next render
setShows(state, list) == [state EXCEPT !.shows = list, !.ordered = orderedShows(list)]

\* the mount effect calls loadShows
LoadShows ==
  /\ showList.pc = "mount"
  /\ showList' = [showList EXCEPT !.pc = "getDocs"]
  /\ UNCHANGED <<cacheVars, refreshVars, now, requests, upEpisodes, procs, searchVars,
                 watchRecords, episodesByShow, toggling, toggled, removing, removed>>

\* await getDocs(show-tracker/{uid}/shows)
GetShowDocs ==
  /\ showList.pc = "getDocs"
  /\ \E ok \in BOOLEAN :
       showList' = IF ok THEN [showList EXCEPT !.pc = "getMeta", !.snap = ShowDocs]
                   ELSE [showList EXCEPT !.pc = "idle", !.error = TRUE]
  /\ UNCHANGED <<cacheVars, refreshVars, now, requests, upEpisodes, procs, searchVars,
                 watchRecords, episodesByShow, toggling, toggled, removing, removed>>

\* await Promise.all(getDoc(cache document)), then setShows(data)
GetShowMeta ==
  /\ showList.pc = "getMeta"
  /\ \E ok \in BOOLEAN :
       showList' = IF ok THEN setShows([showList EXCEPT !.pc = "idle"], showList.snap)
                   ELSE [showList EXCEPT !.pc = "idle", !.error = TRUE]
  /\ UNCHANGED <<cacheVars, refreshVars, now, requests, upEpisodes, procs, searchVars,
                 watchRecords, episodesByShow, toggling, toggled, removing, removed>>

\* loadShows ends in setShows(data); here data is any list of up to MaxShown
\* shows with distinct ids, in any order and with any attentionState
ShownIds == {"s1", "s2", "s3"}
ShownItems ==
  [id : ShownIds, attentionState : AttentionStates \cup {OtherState, NoState}]
ShowLists ==
  {l \in UNION {[1..n -> ShownItems] : n \in 0..MaxShown} :
     \A i, j \in 1..Len(l) : i # j => l[i].id # l[j].id}

SetShows(data) ==
  /\ showList' = setShows([showList EXCEPT !.pc = "idle"], data)
  /\ UNCHANGED <<cacheVars, refreshVars, now, requests, upEpisodes, procs, searchVars,
                 watchRecords, episodesByShow, toggling, toggled, removing, removed>>

\* batch.delete(docSnap.ref) for every document of the snapshot, batch.commit()
deleteWatchRecords(records, snap) == records \ snap

\* setShows(prev.filter(s => s.id !== tvdbId))
removeFromList(list, tvdbId) == SelectSeq(list, LAMBDA s : s.id # tvdbId)

\* delete next[tvdbId] of episodesByShow; showLoading is left alone
forgetEpisodes(state, tvdbId) ==
  IF tvdbId = PageShow
  THEN [state EXCEPT !.loaded = FALSE, !.error = FALSE, !.watched = NotLoaded.watched]
  ELSE state

\* what the ghost log keeps of a handleRemoveShow call that has returned
Removed(r, ok, call, records, docs, list) ==
  [tvdbId |-> r.tvdbId, ok |-> ok, calls |-> Append(r.calls, call),
   before |-> r.before, snap |-> r.snap,
   records |-> IF r.tvdbId = PageShow THEN records ELSE {},
   doc |-> docs[PageUser][r.tvdbId].exists,
   cacheBefore |-> r.cache, cache |-> showsCache[r.tvdbId],
   listed |-> InList(list, r.tvdbId)]

\* a click on the show's remove button, which is disabled while
\* removing[tvdbId]; the user clicks no button while a toggle is in flight
HandleRemoveShow(tvdbId) ==
  /\ InList(showList.shows, tvdbId)
  /\ removing.pc = "idle"
  /\ toggling.pc = "idle"
  /\ Len(removed) < MaxRemovals
  /\ removing' = [pc |-> "getDocs", tvdbId |-> tvdbId, snap |-> {},
                  before |-> watchRecordsOf(tvdbId), calls |-> <<>>,
                  cache |-> showsCache[tvdbId]]
  /\ UNCHANGED <<cacheVars, refreshVars, now, requests, upEpisodes, procs, searchVars,
                 watchRecords, episodesByShow, toggling, toggled, showList, removed>>

\* the catch and the finally of handleRemoveShow: setError, removing = false
removeFailed(call) ==
  /\ removed' = Append(removed, Removed(removing, FALSE, call, watchRecords,
                                        showTrackerShows, showList.shows))
  /\ removing' = NoRemoval
  /\ showList' = [showList EXCEPT !.error = TRUE]

\* await getDocs(show-tracker/{uid}/shows/{tvdbId}/episodes)
GetEpisodesSnap ==
  /\ removing.pc = "getDocs"
  /\ \E ok \in BOOLEAN :
       IF ok
       THEN /\ removing' =
                 [removing EXCEPT !.snap = watchRecordsOf(removing.tvdbId),
                    !.calls = Append(@, "getDocs"),
                    !.pc = IF watchRecordsOf(removing.tvdbId) = {} THEN "deleteDoc"
                           ELSE "commit"]
            /\ UNCHANGED <<showList, removed>>
       ELSE removeFailed("getDocs")
  /\ UNCHANGED <<cacheVars, refreshVars, now, requests, upEpisodes, procs, searchVars,
                 watchRecords, episodesByShow, toggling, toggled>>

\* await batch.commit(): the watch-state records of the snapshot are deleted
CommitWatchDeletes ==
  /\ removing.pc = "commit"
  /\ \E ok \in BOOLEAN :
       IF ok
       THEN /\ watchRecords' = deleteWatchRecords(watchRecords, removing.snap)
            /\ removing' = [removing EXCEPT !.pc = "deleteDoc", !.calls = Append(@, "commit")]
            /\ UNCHANGED <<showList, removed>>
       ELSE /\ removeFailed("commit")
            /\ UNCHANGED watchRecords
  /\ UNCHANGED <<cacheVars, refreshVars, now, requests, upEpisodes, procs, searchVars,
                 episodesByShow, toggling, toggled>>

\* await deleteDoc(show-tracker/{uid}/shows/{tvdbId}), then the show leaves
\* shows, episodesByShow, showExpanded and seasonCounts
DeleteShowDoc ==
  /\ removing.pc = "deleteDoc"
  /\ \E ok \in BOOLEAN :
       IF ok
       THEN LET docs == [showTrackerShows EXCEPT ![PageUser][removing.tvdbId] = NoTrackedShowDoc]
                list == removeFromList(showList.shows, removing.tvdbId)
            IN /\ showTrackerShows' = docs
               /\ showList' = setShows(showList, list)
               /\ episodesByShow' = forgetEpisodes(episodesByShow, removing.tvdbId)
               /\ removed' = Append(removed, Removed(removing, TRUE, "deleteDoc",
                                                     watchRecords, docs, list))
               /\ removing' = NoRemoval
       ELSE /\ removeFailed("deleteDoc")
            /\ UNCHANGED <<showTrackerShows, episodesByShow>>
  /\ UNCHANGED <<showTracker, showsCache, cacheEpisodes, upstreamAtFlag, searchVars,
                 refreshVars, now, requests, upEpisodes, procs,
                 watchRecords, toggling, toggled>>

\* ------------------------------------------------------------ initial states
\* The credential records earlier requests leave behind: none, a record
\* without a PIN (a throttle stamp alone), a PIN alone, a token that is good
\* for another 25 days, a token that expires now.
StoredCredentials ==
  { NoUserDoc,
    [NoUserDoc EXCEPT !.exists = TRUE, !.lastManualRefreshAt = AddDays(T0, -1)],
    [NoUserDoc EXCEPT !.exists = TRUE, !.tvdbPin = "p1"],
    persistAuth(NoUserDoc, "p1", LegacyToken, T0),
    persistAuth(NoUserDoc, "p1", LegacyToken, AddDays(T0, -TOKEN_TTL_DAYS)) }

Tracked(S) == [s \in Shows |-> IF s \in S THEN [NoUserShowDoc EXCEPT !.exists = TRUE]
                                           ELSE NoUserShowDoc]

\* query.trim(): blanks are cut from both ends
RECURSIVE Trim(_)
Trim(q) ==
  IF q = <<>> THEN q
  ELSE IF Head(q) = " " THEN Trim(Tail(q))
  ELSE IF q[Len(q)] = " " THEN Trim(SubSeq(q, 1, Len(q) - 1))
  ELSE q

\* ------------------------------------------- page.tsx, the add-show dialog
\* The search box of the dialog, the debounced copy of its text and the
\* effect that searches for it.  React runs the cleanup of the previous
\* effect and then the effect again in the commit that changes a dependency;
\* each await of run is one step of that run.
NoUrl == ""
FunctionsUrl == "https://us-central1-demo-project.cloudfunctions.net"
MinSearchLength == 2
ShownResults == 15

NoQuery == <<>>
NoError == ""
NoYear == -1
NoText == ""
NoSelection == [id |-> "", title |-> NoText, year |-> NoYear]

\* what the search box holds: nothing, two queries and one of them with a
\* blank after it
TypedQueries == { <<>>, <<"a", "b">>, <<"a", "b", " ">>, <<"a", "c">> }

\* an entry of payload.results as searchShows sends it
Hit(i) ==
  [id |-> i,
   title |-> IF i % 3 = 1 THEN "Title" ELSE NoText,
   name |-> IF i % 3 = 2 THEN "Name" ELSE NoText,
   year |-> [number |-> i % 2 = 0, value |-> 2000 + i]]

Hits(n) == [i \in 1..n |-> Hit(i)]

NoSearchResponse == [ok |-> FALSE, status |-> 0, given |-> FALSE, results |-> <<>>, message |-> NoText]
OkResponse(given, results) ==
  [ok |-> TRUE, status |-> 200, given |-> given, results |-> results, message |-> NoText]
FailResponse(status, message) ==
  [ok |-> FALSE, status |-> status, given |-> FALSE, results |-> <<>>, message |-> message]

SearchResponses ==
  { OkResponse(FALSE, <<>>), OkResponse(TRUE, Hits(ShownResults + 1)),
    FailResponse(400, "TVDB PIN required") }

\* payload.results?.map(...) ?? [] and slice(0, 15)
mappedResults(res) ==
  LET all == [i \in 1..Len(res.results) |->
                [id |-> ToString(res.results[i].id),
                 title |-> IF res.results[i].title # NoText THEN res.results[i].title
                           ELSE IF res.results[i].name # NoText THEN res.results[i].name
                           ELSE "Untitled",
                 year |-> IF res.results[i].year.number THEN res.results[i].year.value
                          ELSE NoYear]]
  IN IF res.given THEN SubSeq(all, 1, Min(ShownResults, Len(all))) ELSE <<>>

\* payload?.message || `Search failed (${res.status})`
failureMessage(res, parsed) ==
  IF parsed /\ res.message # NoText THEN res.message
  ELSE "Search failed (" \o ToString(res.status) \o ")"

NoOutcome == [ok |-> FALSE, results |-> <<>>, message |-> NoText]
Found(results) == [ok |-> TRUE, results |-> results, message |-> NoText]
Threw(message) == [ok |-> FALSE, results |-> <<>>, message |-> message]

\* one run of the effect: the query it searches, its canceled flag and the
\* await it is at; debounced and closed record what the run was started for
\* and whether the dialog was closed since, got and late how it ended and
\* whether a newer query or a closed dialog had superseded it by then
NewRun(query, debounced) ==
  [query |-> query, canceled |-> FALSE, pc |-> "getIdToken", res |-> NoSearchResponse,
   debounced |-> debounced, closed |-> FALSE, got |-> "nothing", late |-> FALSE]

\* a newer debounced query or the closing of the dialog has superseded run k
superseded(s, k, dialog, debounced) ==
  \/ k # Len(s.searchRuns)
  \/ s.searchRuns[k].debounced # debounced
  \/ s.searchRuns[k].closed
  \/ ~dialog

\* a run that has ended keeps nothing but how it ended
ended(run, outcome, late) ==
  [NewRun(NoQuery, NoQuery) EXCEPT !.pc = "done", !.canceled = run.canceled,
                                   !.got = IF outcome.ok THEN "results" ELSE "error",
                                   !.late = late]

SearchState ==
  [searchResults |-> searchResults, selectedShow |-> selectedShow,
   searchError |-> searchError, searching |-> searching, searchRuns |-> searchRuns]

SetSearchState(s) ==
  /\ searchResults' = s.searchResults
  /\ selectedShow' = s.selectedShow
  /\ searchError' = s.searchError
  /\ searching' = s.searching
  /\ searchRuns' = s.searchRuns

\* the alternative in which the cleanup leaves the flag alone
cleanupNone(runs) == runs

\* the cleanup the effect returned: canceled = true for the run it started
cleanup(runs) ==
  IF runs = <<>> THEN runs ELSE [runs EXCEPT ![Len(runs)].canceled = TRUE]

\* the effect starts a run
startsRun(dialog, debounced, url) ==
  dialog /\ url # NoUrl /\ Len(Trim(debounced)) >= MinSearchLength

\* the body of the effect, up to the first await of run
searchEffect(dialog, debounced, url, s) ==
  IF ~dialog THEN s
  ELSE IF url = NoUrl
    THEN [s EXCEPT !.searchError = "Missing project configuration for search."]
  ELSE IF Len(Trim(debounced)) < MinSearchLength
    THEN [s EXCEPT !.searchResults = <<>>, !.selectedShow = NoSelection,
                   !.searchError = NoError]
  ELSE [s EXCEPT !.searching = TRUE, !.searchError = NoError,
                 !.searchRuns = Append(@, NewRun(Trim(debounced), debounced))]

\* a dependency of the effect changed: cleanup, then the effect again
rerunSearchEffect(dialog, debounced, url, s) ==
  searchEffect(dialog, debounced, url, [s EXCEPT !.searchRuns = cleanup(@)])

\* the run has left its try block: results or error, then finally
settled(s, k, outcome) ==
  LET run == s.searchRuns[k]
      done == [s EXCEPT !.searchRuns[k] =
                 ended(run, outcome, superseded(s, k, showAddDialog, debouncedSearch))]
  IN IF run.canceled THEN done
     ELSE IF outcome.ok
       THEN [done EXCEPT !.searchResults = outcome.results, !.searching = FALSE]
     ELSE [done EXCEPT !.searchError = outcome.message, !.searching = FALSE]

dialogRest ==
  <<cacheVars, refreshVars, now, requests, upEpisodes, procs, watchRecords,
    episodesByShow, toggling, toggled, listVars, functionsBaseUrl>>

\* openAddDialog
OpenAddDialog ==
  /\ ~showAddDialog
  /\ startsRun(TRUE, debouncedSearch, functionsBaseUrl) => Len(searchRuns) < MaxRuns
  /\ showAddDialog' = TRUE
  /\ searchQuery' = NoQuery
  /\ debounceTimer' = (debounceTimer \/ searchQuery # NoQuery)
  /\ SetSearchState(rerunSearchEffect(TRUE, debouncedSearch, functionsBaseUrl,
       [SearchState EXCEPT !.searchResults = <<>>, !.selectedShow = NoSelection,
                           !.searchError = NoError]))
  /\ UNCHANGED <<dialogRest, debouncedSearch>>

\* the Close and Cancel buttons: setShowAddDialog(false)
CloseAddDialog ==
  /\ showAddDialog
  /\ showAddDialog' = FALSE
  /\ SetSearchState(
       LET s == rerunSearchEffect(FALSE, debouncedSearch, functionsBaseUrl, SearchState)
       IN [s EXCEPT !.searchRuns =
             [i \in 1..Len(s.searchRuns) |-> [s.searchRuns[i] EXCEPT !.closed = TRUE]]])
  /\ UNCHANGED <<dialogRest, searchQuery, debouncedSearch, debounceTimer>>

\* the user edits the search box: setSearchQuery, and useDebouncedValue
\* replaces its timeout
SetSearchQuery(value) ==
  /\ showAddDialog
  /\ value # searchQuery
  /\ searchQuery' = value
  /\ debounceTimer' = TRUE
  /\ UNCHANGED <<dialogRest, showAddDialog, debouncedSearch, searchResults, searching,
                 selectedShow, searchError, searchRuns>>

\* the timeout of useDebouncedValue: setDebounced(value)
SetDebounced ==
  /\ debounceTimer
  /\ (searchQuery # debouncedSearch /\ startsRun(showAddDialog, searchQuery, functionsBaseUrl))
       => Len(searchRuns) < MaxRuns
  /\ debounceTimer' = FALSE
  /\ debouncedSearch' = searchQuery
  /\ SetSearchState(IF searchQuery # debouncedSearch
                    THEN rerunSearchEffect(showAddDialog, searchQuery, functionsBaseUrl,
                                           SearchState)
                    ELSE SearchState)
  /\ UNCHANGED <<dialogRest, showAddDialog, searchQuery>>

\* the user chooses a listed result: setSelectedShow(result)
SetSelectedShow(i) ==
  /\ showAddDialog
  /\ i \in 1..Len(searchResults)
  /\ selectedShow' = searchResults[i]
  /\ UNCHANGED <<dialogRest, showAddDialog, searchQuery, debouncedSearch, debounceTimer,
                 searchResults, searching, searchError, searchRuns>>

\* run: await user.getIdToken()
GetIdToken(k) ==
  /\ k \in 1..Len(searchRuns)
  /\ searchRuns[k].pc = "getIdToken"
  /\ \E ok \in BOOLEAN :
       SetSearchState(IF ok THEN [SearchState EXCEPT !.searchRuns[k].pc = "fetch"]
                      ELSE settled(SearchState, k, Threw("auth/network-request-failed")))
  /\ UNCHANGED <<dialogRest, showAddDialog, searchQuery, debouncedSearch, debounceTimer>>

\* run: await fetch(.../searchShows?query=...)
FetchSearchShows(k) ==
  /\ k \in 1..Len(searchRuns)
  /\ searchRuns[k].pc = "fetch"
  /\ \/ \E res \in SearchResponses :
          SetSearchState([SearchState EXCEPT !.searchRuns[k].pc = "json",
                                             !.searchRuns[k].res = res])
     \/ SetSearchState(settled(SearchState, k, Threw("Failed to fetch")))
  /\ UNCHANGED <<dialogRest, showAddDialog, searchQuery, debouncedSearch, debounceTimer>>

\* run: await res.json(), of the error payload or of the results
ReadSearchPayload(k) ==
  /\ k \in 1..Len(searchRuns)
  /\ searchRuns[k].pc = "json"
  /\ \E parsed \in BOOLEAN :
       LET res == searchRuns[k].res
       IN SetSearchState(settled(SearchState, k,
            IF ~res.ok THEN Threw(failureMessage(res, parsed))
            ELSE IF parsed THEN Found(mappedResults(res))
            ELSE Threw("Unexpected end of JSON input")))
  /\ UNCHANGED <<dialogRest, showAddDialog, searchQuery, debouncedSearch, debounceTimer>>

\* the dialog is closed and nothing was typed; the timeout useDebouncedValue
\* set at mount is pending
DialogClosed ==
  /\ showAddDialog = FALSE
  /\ searchQuery = NoQuery
  /\ debouncedSearch = NoQuery
  /\ debounceTimer = TRUE
  /\ searchResults = <<>>
  /\ searching = FALSE
  /\ selectedShow = NoSelection
  /\ searchError = NoError
  /\ searchRuns = <<>>

InitServer ==
  /\ now = T0
  /\ ticks = 0
  /\ requests = 0
  /\ shows = [s \in Shows |-> NoShowDoc]
  /\ nextToken = LegacyToken + 1
  /\ procs = [p \in Procs |-> IdleProc]
  /\ showTrackerShows = [u \in Users |-> [s \in Shows |-> NoTrackedShowDoc]]
  /\ showsCache = [s \in Shows |-> NoCacheDoc]
  /\ cacheEpisodes = [s \in Shows |-> {}]
  /\ upstreamAtFlag = [s \in Shows |-> 0]

\* no page is open
ShowsClosed ==
  /\ episodesByShow = NotLoaded
  /\ toggling = NoToggle
  /\ toggled = <<>>
  /\ showList = NoShows
  /\ removing = NoRemoval
  /\ removed = <<>>

PageClosed ==
  /\ ShowsClosed
  /\ DialogClosed
  /\ functionsBaseUrl = FunctionsUrl

InitCommon ==
  /\ InitServer
  /\ PageClosed
  /\ watchRecords = {}

\* the stores of the refresh specifications: no PIN was saved through
\* saveTvdbPin, show s1 has 3 episodes upstream and show s2 has 51
InitRefresh ==
  /\ InitCommon
  /\ upEpisodes = [s \in Shows |-> IF s = "s1" THEN 3 ELSE 51]
  /\ showTracker = [u \in Users |-> NoTrackerDoc]

Init ==
  /\ InitRefresh
  /\ \E c \in StoredCredentials : users = [u \in Users |-> IF u = "u1" THEN c ELSE NoUserDoc]
  /\ \E S \in {{}, {"s1"}} :
       userShows = [u \in Users |-> IF u = "u1" THEN Tracked(S) ELSE Tracked({})]

\* the steps of refresh.ts, shared by the manual and the scheduled refresh
RefreshStep(p) ==
  \/ PrepareClientForUser(p)
  \/ Login(p)
  \/ PersistAuth(p)
  \/ ListUserShows(p)
  \/ FetchShow(p)
  \/ FetchEpisodes(p)
  \/ WriteShow(p)
  \/ WriteUserShow(p)
  \/ RecordRefreshTimestamp(p)

\* Manual refresh: refreshShowsNow requests, one at a time.
Next ==
  \/ \E u \in Users, pin \in {NoPin, "p2"}, keyOk \in BOOLEAN, bearerOk \in BOOLEAN :
       StartRefreshShowsNow("r1", u, pin, keyOk, bearerOk)
  \/ Throttle("r1")
  \/ RecordRequestTime("r1")
  \/ RefreshStep("r1")
  \/ Return("r1")
  \/ TickMillis
  \/ TickDay

Spec == Init /\ [][Next]_vars

\* Scheduled refresh: refreshShowsScheduled runs over every stored user.
InitScheduled ==
  /\ InitRefresh
  /\ \E c1 \in StoredCredentials, c2 \in StoredCredentials \ {NoUserDoc} :
       users = [u \in Users |-> IF u = "u1" THEN c1 ELSE c2]
  /\ \E S1 \in {{}, {"s1", "s2"}}, S2 \in {{}, {"s1"}} :
       userShows = [u \in Users |-> IF u = "u1" THEN Tracked(S1) ELSE Tracked(S2)]

NextScheduled ==
  \/ StartRefreshAllUsers("r1")
  \/ RefreshStep("r1")
  \/ TickDay

SpecScheduled == InitScheduled /\ [][NextScheduled]_vars

\* ------------------------------------------------------ tvdb/client.ts paging
MAX_PAGES == 50
FULL_PAGE == 50
BATCH_SIZE == 400

\* the episodes of page `page` (0-based) of a show with n episodes, in order
EpisodePageSeq(n, page) ==
  [i \in 1 .. (Min(n, (page + 1) * UPSTREAM_PAGE) - page * UPSTREAM_PAGE) |->
     page * UPSTREAM_PAGE + i]

\* the upstream record of episode e: two episodes to a season
UpstreamEpisode(e) ==
  [id |-> e, name |-> e, seasonNumber |-> ((e - 1) \div 2) + 1, number |-> ((e - 1) % 2) + 1,
   airDate |-> e, absoluteNumber |-> e]

\* the document getEpisodes stores for an episode (updatedAt left out)
EpisodeDoc(ep) ==
  [title |-> ep.name, seasonNumber |-> ep.seasonNumber, episodeNumber |-> ep.number,
   airDate |-> ep.airDate, absoluteNumber |-> ep.absoluteNumber, overview |-> 0]

\* for (let i = 0; i < episodes.length; i += 400) chunks.push(episodes.slice(i, i + 400))
\* the alternative in which all episodes go into one batch
ChunksOfWhole(episodes) == IF episodes = <<>> THEN <<>> ELSE <<episodes>>

RECURSIVE ChunksOf(_)
ChunksOf(episodes) ==
  IF episodes = <<>> THEN <<>>
  ELSE <<SubSeq(episodes, 1, Min(BATCH_SIZE, Len(episodes)))>>
       \o ChunksOf(SubSeq(episodes, BATCH_SIZE + 1, Len(episodes)))

\* getCachedEpisodes: with a season, where("seasonNumber", "==", season)
\* .orderBy("number", "asc"), and a query ordered by a field returns only the
\* documents that have the field; without a season, the whole subcollection
getCachedEpisodes(tvdbId, seasonNumber) ==
  IF seasonNumber # NoSeason
  THEN {e \in cacheEpisodes[tvdbId] :
          LET d == EpisodeDoc(UpstreamEpisode(e))
          IN /\ "seasonNumber" \in DOMAIN d
             /\ d.seasonNumber = seasonNumber
             /\ "number" \in DOMAIN d}
  ELSE cacheEpisodes[tvdbId]

\* ------------------------------------------- index.ts addShow and getEpisodes
\* the catch block of addShow, getEpisodes or searchShows
cacheOpFailed(r) ==
  Respond(r, 500, IF r.op = "addShow" THEN "add_show_failed"
                  ELSE IF r.op = "searchShows" THEN "search_failed"
                  ELSE "get_episodes_failed")

\* fetchAllEpisodes has returned: getEpisodes cuts the list into chunks
fetched(r, all) ==
  [r EXCEPT !.all = all, !.chunks = ChunksOf(all),
            !.pc = IF all = <<>> THEN "setFlag" ELSE "commitBatch"]

\* a request past the method, key and bearer checks, or answered by them
startCacheOp(op, u, tvdbId, seasonNumber, keyOk, bearerOk) ==
  LET r == [IdleProc EXCEPT !.op = op, !.userId = u, !.tvdbId = tvdbId,
                            !.seasonNumber = seasonNumber,
                            !.keyOk = keyOk, !.bearerOk = bearerOk]
  IN IF ~keyOk THEN Respond(r, 500, "TheTVDB API key not configured")
     ELSE IF ~bearerOk THEN Respond(r, 401, "Unauthorized")
     ELSE IF tvdbId = "" THEN Respond(r, 400, "tvdb_id_required")
     ELSE [r EXCEPT !.pc = "readPin"]

StartAddShow(p, u, tvdbId, keyOk, bearerOk) ==
  /\ procs[p].pc = "idle"
  /\ requests < MaxRequests
  /\ requests' = requests + 1
  /\ procs' = [procs EXCEPT ![p] = startCacheOp("addShow", u, tvdbId, NoSeason, keyOk, bearerOk)]
  /\ UNCHANGED <<cacheVars, pageVars, refreshVars, now, upEpisodes>>

StartGetEpisodes(p, u, tvdbId, seasonNumber, keyOk, bearerOk) ==
  /\ procs[p].pc = "idle"
  /\ requests < MaxRequests
  /\ requests' = requests + 1
  /\ procs' = [procs EXCEPT ![p] =
                 startCacheOp("getEpisodes", u, tvdbId, seasonNumber, keyOk, bearerOk)]
  /\ UNCHANGED <<cacheVars, pageVars, refreshVars, now, upEpisodes>>

\* usersCollection.doc(userId).get(): the PIN saved under show-tracker/{userId}
ReadPin(p) ==
  LET r == procs[p]
      pin == IF showTracker[r.userId].exists THEN showTracker[r.userId].tvdbPin ELSE NoPin
      read == Logged([r EXCEPT !.pinToUse = pin], Call("getPin", r.userId, pin, TRUE, 0))
  IN /\ r.pc = "readPin"
     /\ \E ok \in BOOLEAN :
          procs' = [procs EXCEPT ![p] =
            IF ~ok
            THEN cacheOpFailed(Logged(r, Call("getPin", r.userId, "", FALSE, 0)))
            ELSE IF pin = NoPin
            THEN Respond(read, 400, "pin_required")
            ELSE IF r.op \in {"addShow", "searchShows"}
            THEN [read EXCEPT !.pc = "clientLogin"]
            ELSE [read EXCEPT !.pc = "readShowCache"]]
     /\ UNCHANGED <<cacheVars, pageVars, refreshVars, now, requests, upEpisodes>>

\* getEpisodes: showsCacheCollection.doc(tvdbId).get() and its hasAllEpisodes
ReadShowCache(p) ==
  LET r == procs[p]
      hasAllEpisodes == IF showsCache[r.tvdbId].exists
                        THEN showsCache[r.tvdbId].hasAllEpisodes ELSE FALSE
      read == Logged([r EXCEPT !.hasAllEpisodes = hasAllEpisodes],
                     Call("getShowCache", r.userId, r.tvdbId, TRUE, 0))
  IN /\ r.pc = "readShowCache"
     /\ \E ok \in BOOLEAN :
          procs' = [procs EXCEPT ![p] =
            IF ~ok
            THEN cacheOpFailed(Logged(r, Call("getShowCache", r.userId, r.tvdbId, FALSE, 0)))
            ELSE IF hasAllEpisodes
            THEN [read EXCEPT !.pc = "getCached"]
            ELSE [read EXCEPT !.pc = "clientLogin"]]
     /\ UNCHANGED <<cacheVars, pageVars, refreshVars, now, requests, upEpisodes>>

\* new TvdbClient(apiKey, pin) holds no token: its first request logs in
ClientLogin(p) ==
  LET r == procs[p]
  IN /\ r.pc = "clientLogin"
     /\ \E ok \in BOOLEAN :
          IF ok
          THEN /\ procs' = [procs EXCEPT ![p] =
                    Logged([r EXCEPT !.token = nextToken, !.page = 0, !.all = <<>>,
                              !.pc = IF r.op = "addShow" THEN "fetchShowExtended"
                                     ELSE IF r.op = "searchShows" THEN "search"
                                     ELSE "fetchPage"],
                           Call("login", r.userId, r.pinToUse, TRUE, nextToken))]
               /\ nextToken' = nextToken + 1
          ELSE /\ procs' = [procs EXCEPT ![p] =
                    cacheOpFailed(Logged(r, Call("login", r.userId, r.pinToUse, FALSE, 0)))]
               /\ UNCHANGED nextToken
     /\ UNCHANGED <<cacheVars, pageVars, now, ticks, requests, users, userShows, shows, upEpisodes>>

\* addShow: client.fetchShowExtended(tvdbId)
FetchShowExtended(p) ==
  LET r == procs[p]
  IN /\ r.pc = "fetchShowExtended"
     /\ \E ok \in BOOLEAN :
          procs' = [procs EXCEPT ![p] =
            IF ok
            THEN Logged([r EXCEPT !.pc = "writeShowCache"],
                        Call("fetchShowExtended", r.userId, r.tvdbId, TRUE, 0))
            ELSE cacheOpFailed(Logged(r, Call("fetchShowExtended", r.userId, r.tvdbId, FALSE, 0)))]
     /\ UNCHANGED <<cacheVars, pageVars, refreshVars, now, requests, upEpisodes>>

\* (variant: the write leaves hasAllEpisodes as it is)
\* the alternative in which the write replaces the stored document
setShowDoc(doc, name, at) ==
  [NoCacheDoc EXCEPT !.exists = TRUE, !.title = name, !.updatedAt = at]

mergeShowDocKeepingFlag(doc, name, at) ==
  [doc EXCEPT !.exists = TRUE, !.title = name, !.updatedAt = at]

\* addShow's showDoc merged into the stored cache document: the show fields,
\* updatedAt and hasAllEpisodes: false; other stored fields stay
mergeShowDoc(doc, name, at) ==
  [doc EXCEPT !.exists = TRUE, !.title = name, !.updatedAt = at, !.hasAllEpisodes = FALSE]

\* addShow: showsCacheCollection.doc(tvdbId).set(showDoc, { merge: true })
WriteShowCache(p) ==
  LET r == procs[p]
  IN /\ r.pc = "writeShowCache"
     /\ \E ok \in BOOLEAN :
          IF ok
          THEN /\ showsCache' = [showsCache EXCEPT ![r.tvdbId] = mergeShowDoc(@, r.tvdbId, now)]
               /\ procs' = [procs EXCEPT ![p] =
                    Logged([r EXCEPT !.pc = "writeTrackedShow"],
                           Call("setShowCache", r.userId, r.tvdbId, TRUE, 0))]
          ELSE /\ procs' = [procs EXCEPT ![p] =
                    cacheOpFailed(Logged(r, Call("setShowCache", r.userId, r.tvdbId, FALSE, 0)))]
               /\ UNCHANGED showsCache
     /\ UNCHANGED <<showTracker, showTrackerShows, cacheEpisodes, upstreamAtFlag,
                    pageVars, refreshVars, now, requests, upEpisodes>>

\* addShow: show-tracker/{userId}/shows/{tvdbId}.set({...}, { merge: true })
WriteTrackedShow(p) ==
  LET r == procs[p]
  IN /\ r.pc = "writeTrackedShow"
     /\ \E ok \in BOOLEAN :
          IF ok
          THEN /\ showTrackerShows' = [showTrackerShows EXCEPT ![r.userId][r.tvdbId] =
                    [@ EXCEPT !.exists = TRUE, !.title = r.tvdbId, !.addedAt = now,
                              !.showRef = r.tvdbId, !.lastCachedAt = now]]
               /\ procs' = [procs EXCEPT ![p] =
                    [Respond(Logged(r, Call("setTrackedShow", r.userId, r.tvdbId, TRUE, 0)),
                             200, "ok")
                       EXCEPT !.resp.show = [id |-> r.tvdbId, name |-> r.tvdbId]]]
          ELSE /\ procs' = [procs EXCEPT ![p] =
                    cacheOpFailed(Logged(r, Call("setTrackedShow", r.userId, r.tvdbId, FALSE, 0)))]
               /\ UNCHANGED showTrackerShows
     /\ UNCHANGED <<showTracker, showsCache, cacheEpisodes, upstreamAtFlag,
                    pageVars, refreshVars, now, requests, upEpisodes>>

\* (variant: only an empty page or the page cap ends the loop)
stopsPagingWhenEmpty(episodes, page) == page + 1 >= MAX_PAGES

\* fetchAllEpisodes: after a page that is not empty, the loop ends on a short
\* page (episodes.length < 50) or when page + 1 reaches maxPages
stopsPaging(episodes, page) == Len(episodes) < FULL_PAGE \/ page + 1 >= MAX_PAGES

\* fetchAllEpisodes: one turn of the loop, the request for page r.page
FetchEpisodesPage(p) ==
  LET r == procs[p]
      episodes == EpisodePageSeq(upEpisodes[r.tvdbId], r.page)
      got == Logged([r EXCEPT !.read = Append(@, [page |-> r.page, count |-> Len(episodes)])],
                    Call("fetchEpisodesPage", r.userId, r.tvdbId, TRUE, r.page))
  IN /\ r.pc = "fetchPage"
     /\ \E ok \in BOOLEAN :
          procs' = [procs EXCEPT ![p] =
            IF ~ok
            THEN cacheOpFailed(Logged(r, Call("fetchEpisodesPage", r.userId, r.tvdbId,
                                              FALSE, r.page)))
            ELSE IF Len(episodes) = 0
            THEN fetched(got, r.all)
            ELSE IF stopsPaging(episodes, r.page)
            THEN fetched(got, r.all \o episodes)
            ELSE [got EXCEPT !.all = r.all \o episodes, !.page = r.page + 1]]
     /\ UNCHANGED <<cacheVars, pageVars, refreshVars, now, requests, upEpisodes>>

\* getEpisodes: batch.commit() of the next chunk
CommitBatch(p) ==
  LET r == procs[p]
      chunk == Head(r.chunks)
  IN /\ r.pc = "commitBatch"
     /\ \E ok \in BOOLEAN :
          IF ok
          THEN /\ cacheEpisodes' = [cacheEpisodes EXCEPT ![r.tvdbId] =
                    @ \cup {chunk[i] : i \in 1..Len(chunk)}]
               /\ procs' = [procs EXCEPT ![p] =
                    Logged([r EXCEPT !.chunks = Tail(@),
                              !.pc = IF Len(r.chunks) = 1 THEN "setFlag" ELSE "commitBatch"],
                           Call("commitBatch", r.userId, r.tvdbId, TRUE, Len(chunk)))]
          ELSE /\ procs' = [procs EXCEPT ![p] =
                    cacheOpFailed(Logged(r, Call("commitBatch", r.userId, r.tvdbId, FALSE,
                                                 Len(chunk))))]
               /\ UNCHANGED cacheEpisodes
     /\ UNCHANGED <<showTracker, showTrackerShows, showsCache, upstreamAtFlag,
                    pageVars, refreshVars, now, requests, upEpisodes>>

\* getEpisodes: set({ hasAllEpisodes: true, episodesUpdatedAt }, { merge: true })
SetHasAllEpisodes(p) ==
  LET r == procs[p]
  IN /\ r.pc = "setFlag"
     /\ \E ok \in BOOLEAN :
          IF ok
          THEN /\ showsCache' = [showsCache EXCEPT ![r.tvdbId] =
                    [@ EXCEPT !.exists = TRUE, !.hasAllEpisodes = TRUE,
                              !.episodesUpdatedAt = now]]
               /\ upstreamAtFlag' = [upstreamAtFlag EXCEPT ![r.tvdbId] = upEpisodes[r.tvdbId]]
               /\ procs' = [procs EXCEPT ![p] =
                    Logged([r EXCEPT !.pc = "getCached"],
                           Call("setHasAllEpisodes", r.userId, r.tvdbId, TRUE, 0))]
          ELSE /\ procs' = [procs EXCEPT ![p] =
                    cacheOpFailed(Logged(r, Call("setHasAllEpisodes", r.userId, r.tvdbId,
                                                 FALSE, 0)))]
               /\ UNCHANGED <<showsCache, upstreamAtFlag>>
     /\ UNCHANGED <<showTracker, showTrackerShows, cacheEpisodes,
                    pageVars, refreshVars, now, requests, upEpisodes>>

\* getEpisodes: getCachedEpisodes() and the 200 response
GetCachedEpisodes(p) ==
  LET r == procs[p]
      cached == getCachedEpisodes(r.tvdbId, r.seasonNumber)
      served == Respond(Logged(r, Call("queryEpisodes", r.userId, r.tvdbId, TRUE,
                                       Cardinality(cached))),
                        200, "ok")
  IN /\ r.pc = "getCached"
     /\ \E ok \in BOOLEAN :
          procs' = [procs EXCEPT ![p] =
            IF ok
            THEN [served EXCEPT !.resp.episodes = cached]
            ELSE cacheOpFailed(Logged(r, Call("queryEpisodes", r.userId, r.tvdbId, FALSE, 0)))]
     /\ UNCHANGED <<cacheVars, pageVars, refreshVars, now, requests, upEpisodes>>

\* ----------------------------------------------- the shared cache, end to end
\* upstream at the start: show s1 has exactly three full pages, show s2 one
\* episode more than MAX_PAGES full pages
CacheUpstream == [s \in Shows |-> IF s = "s1" THEN 3 * UPSTREAM_PAGE
                                              ELSE MAX_PAGES * UPSTREAM_PAGE + 1]

\* the provider publishes one more episode of show s
UpstreamAirs(s) ==
  /\ upEpisodes[s] < CacheUpstream[s] + MaxAired
  /\ upEpisodes' = [upEpisodes EXCEPT ![s] = @ + 1]
  /\ UNCHANGED <<cacheVars, pageVars, refreshVars, now, requests, procs>>

InitCache ==
  /\ InitCommon
  /\ upEpisodes = CacheUpstream
  /\ users = [u \in Users |-> NoUserDoc]
  /\ userShows = [u \in Users |-> Tracked({})]
  /\ \E c \in {NoTrackerDoc, [NoTrackerDoc EXCEPT !.exists = TRUE, !.tvdbPin = "p1"]} :
       showTracker = [u \in Users |-> IF u = "u1" THEN c ELSE NoTrackerDoc]

CacheStep(p) ==
  \/ ReadPin(p)
  \/ ReadShowCache(p)
  \/ ClientLogin(p)
  \/ FetchShowExtended(p)
  \/ WriteShowCache(p)
  \/ WriteTrackedShow(p)
  \/ FetchEpisodesPage(p)
  \/ CommitBatch(p)
  \/ SetHasAllEpisodes(p)
  \/ GetCachedEpisodes(p)

\* addShow and getEpisodes requests, one at a time, while the provider's
\* episode lists grow.
NextCache ==
  \/ \E u \in Users, tvdbId \in Shows \cup {""}, keyOk \in BOOLEAN, bearerOk \in BOOLEAN :
       StartAddShow("r1", u, tvdbId, keyOk, bearerOk)
  \/ \E u \in Users, tvdbId \in Shows \cup {""}, seasonNumber \in {NoSeason, 1},
        keyOk \in BOOLEAN, bearerOk \in BOOLEAN :
       StartGetEpisodes("r1", u, tvdbId, seasonNumber, keyOk, bearerOk)
  \/ CacheStep("r1")
  \/ Return("r1")
  \/ \E s \in Shows : UpstreamAirs(s)

SpecCache == InitCache /\ [][NextCache]_vars

\* ------------------------------------------------------ index.ts saveTvdbPin
\* A POST arrives: the bearer token is verified, then the trimmed PIN.
StartSaveTvdbPin(p, u, pin, bearerOk) ==
  LET r == [IdleProc EXCEPT !.op = "saveTvdbPin", !.userId = u, !.pin = pin,
                            !.bearerOk = bearerOk]
  IN /\ procs[p].pc = "idle"
     /\ requests < MaxRequests
     /\ requests' = requests + 1
     /\ procs' = [procs EXCEPT ![p] =
          IF ~bearerOk THEN Respond(r, 401, "Unauthorized")
          ELSE IF pin = NoPin THEN Respond(r, 400, "pin_required")
          ELSE [r EXCEPT !.pc = "savePin"]]
     /\ UNCHANGED <<cacheVars, pageVars, refreshVars, now, upEpisodes>>

\* usersCollection.doc(userId).set({ tvdbPin, tvdbToken: delete(),
\* tvdbTokenExpiresAt: delete() }, { merge: true }); the handler does not
\* catch a rejected write, the platform fails the request
SavePin(p) ==
  LET r == procs[p]
  IN /\ r.pc = "savePin"
     /\ \E ok \in BOOLEAN :
          IF ok
          THEN /\ showTracker' = [showTracker EXCEPT ![r.userId] =
                    [@ EXCEPT !.exists = TRUE, !.tvdbPin = r.pin, !.tvdbToken = NoToken,
                              !.tvdbTokenExpiresAt = NoTime]]
               /\ procs' = [procs EXCEPT ![p] =
                    Respond(Logged(r, Call("setPin", r.userId, r.pin, TRUE, 0)), 200, "ok")]
          ELSE /\ procs' = [procs EXCEPT ![p] =
                    Respond(Logged(r, Call("setPin", r.userId, r.pin, FALSE, 0)),
                            500, "unhandled")]
               /\ UNCHANGED showTracker
     /\ UNCHANGED <<showTrackerShows, showsCache, cacheEpisodes, upstreamAtFlag,
                    pageVars, refreshVars, now, requests, upEpisodes>>

\* ------------------------------------------ an account, from PIN to refresh
\* A user saves a PIN, adds a show and refreshes, or the scheduled refresh
\* runs; user u1 may hold credentials under users/u1 from an earlier login
\* and a PIN under show-tracker/u1 from an earlier saveTvdbPin.
InitAccount ==
  /\ InitCommon
  /\ upEpisodes = [s \in Shows |-> IF s = "s1" THEN 3 ELSE 51]
  /\ \E c \in {NoUserDoc, persistAuth(NoUserDoc, "p1", LegacyToken, T0)} :
       users = [u \in Users |-> IF u = "u1" THEN c ELSE NoUserDoc]
  /\ \E S \in {{}, {"s2"}} :
       userShows = [u \in Users |-> IF u = "u1" THEN Tracked(S) ELSE Tracked({})]
  /\ \E c \in {NoTrackerDoc, [NoTrackerDoc EXCEPT !.exists = TRUE, !.tvdbPin = "p1"]} :
       showTracker = [u \in Users |-> IF u = "u1" THEN c ELSE NoTrackerDoc]

NextAccount ==
  \/ \E pin \in {NoPin, "p2"}, bearerOk \in BOOLEAN : StartSaveTvdbPin("r1", "u1", pin, bearerOk)
  \/ SavePin("r1")
  \/ \E keyOk \in BOOLEAN, bearerOk \in BOOLEAN : StartAddShow("r1", "u1", "s1", keyOk, bearerOk)
  \/ ReadPin("r1")
  \/ ClientLogin("r1")
  \/ FetchShowExtended("r1")
  \/ WriteShowCache("r1")
  \/ WriteTrackedShow("r1")
  \/ \E pin \in {NoPin, "p2"}, keyOk \in BOOLEAN, bearerOk \in BOOLEAN :
       StartRefreshShowsNow("r1", "u1", pin, keyOk, bearerOk)
  \/ Throttle("r1")
  \/ RecordRequestTime("r1")
  \/ StartRefreshAllUsers("r1")
  \/ RefreshStep("r1")
  \/ Return("r1")

SpecAccount == InitAccount /\ [][NextAccount]_vars

\* ------------------------------------------------- tvdb/client.ts searchShows
SEARCH_LIMIT == 15
MIN_QUERY_LENGTH == 2

\* an id as the provider sends it: absent, a raw id, or "series-" and an id
NoId == [given |-> FALSE, prefixed |-> FALSE, rest |-> ""]
RawId(x) == [given |-> TRUE, prefixed |-> FALSE, rest |-> x]
SeriesId(x) == [given |-> TRUE, prefixed |-> TRUE, rest |-> x]

NoName == [given |-> FALSE, text |-> ""]
Name(x) == [given |-> TRUE, text |-> x]

SearchItem(tvdb_id, id, name) == [tvdb_id |-> tvdb_id, id |-> id, name |-> name]

\* normalizeId(item.tvdb_id ?? item.id): undefined stays undefined, a leading
\* "series-" is stripped
normalizeId(item) ==
  LET value == IF item.tvdb_id.given THEN item.tvdb_id ELSE item.id
  IN IF value.given THEN [given |-> TRUE, text |-> value.rest] ELSE NoName

\* data.map(item => ({ id, name: item.name ?? "Untitled", ... }))
mapSearchItem(item) ==
  [id |-> normalizeId(item),
   name |-> IF item.name.given THEN item.name ELSE Name("Untitled")]

\* .filter(r => !!r.id && !!r.name)
keepsResult(r) == r.id.given /\ r.id.text # "" /\ r.name.given /\ r.name.text # ""

\* TvdbClient.searchShows: map, filter, slice(0, limit)
searchShowsResults(data, limit) ==
  LET mapped == [i \in 1..Len(data) |-> mapSearchItem(data[i])]
      kept == SelectSeq(mapped, keepsResult)
      cut == SubSeq(kept, 1, Min(limit, Len(kept)))
  IN [i \in 1..Len(cut) |-> [id |-> cut[i].id.text, name |-> cut[i].name.text]]

\* ------------------------------------------------------ index.ts searchShows
\* (variant: one character is enough)
queryRejectedWhenEmpty(query) == Len(Trim(query)) < 1

\* !query || query.trim().length < 2
queryRejected(query) == query = <<>> \/ Len(Trim(query)) < MIN_QUERY_LENGTH

\* A GET arrives: the API key, then the query, then the bearer token.
StartSearchShows(p, u, query, keyOk, bearerOk) ==
  LET r == [IdleProc EXCEPT !.op = "searchShows", !.userId = u, !.query = query,
                            !.keyOk = keyOk, !.bearerOk = bearerOk]
  IN /\ procs[p].pc = "idle"
     /\ requests < MaxRequests
     /\ requests' = requests + 1
     /\ procs' = [procs EXCEPT ![p] =
          IF ~keyOk THEN Respond(r, 500, "TheTVDB API key not configured")
          ELSE IF queryRejected(query) THEN Respond(r, 400, "query_required")
          ELSE IF ~bearerOk THEN Respond(r, 401, "Unauthorized")
          ELSE [r EXCEPT !.pc = "readPin"]]
     /\ UNCHANGED <<cacheVars, pageVars, refreshVars, now, upEpisodes>>

\* what the provider may answer to a search
ItemKinds ==
  { SearchItem(RawId("1"), NoId, Name("A")),
    SearchItem(NoId, SeriesId("2"), Name("B")),
    SearchItem(NoId, NoId, Name("C")),
    SearchItem(RawId("4"), NoId, NoName),
    SearchItem(NoId, SeriesId(""), Name("E")),
    SearchItem(RawId("6"), NoId, Name("")) }

\* more results than the limit, the third without an id
LongData ==
  [i \in 1..(SEARCH_LIMIT + 2) |->
     IF i = 3 THEN SearchItem(NoId, NoId, Name("C"))
     ELSE SearchItem(SeriesId(ToString(i)), NoId, Name("A"))]

SearchData == UNION {[1..n -> ItemKinds] : n \in 0..MaxResults} \cup {LongData}

\* client.searchShows(query.trim(), 15) and the 200 response
SearchShows(p) ==
  LET r == procs[p]
  IN /\ r.pc = "search"
     /\ \E ok \in BOOLEAN, data \in SearchData :
          procs' = [procs EXCEPT ![p] =
            IF ok
            THEN [Respond(Logged([r EXCEPT !.data = data],
                                 Call("searchShows", r.userId, "", TRUE, Len(data))),
                          200, "ok")
                    EXCEPT !.resp.results = searchShowsResults(data, SEARCH_LIMIT)]
            ELSE cacheOpFailed(Logged(r, Call("searchShows", r.userId, "", FALSE, 0)))]
     /\ UNCHANGED <<cacheVars, pageVars, refreshVars, now, requests, upEpisodes>>

Queries == { <<>>, <<"a">>, <<" ", "a", " ">>, <<" ", " ", " ">>, <<"a", "b">>,
             <<" ", "a", "b">> }

NextSearch ==
  \/ \E u \in Users, query \in Queries, keyOk \in BOOLEAN, bearerOk \in BOOLEAN :
       StartSearchShows("r1", u, query, keyOk, bearerOk)
  \/ ReadPin("r1")
  \/ ClientLogin("r1")
  \/ SearchShows("r1")
  \/ Return("r1")

SpecSearch == InitCache /\ [][NextSearch]_vars

\* ------------------------------------------------ the page's watch state
\* The user opens the show and clicks episode buttons one after the other;
\* records of earlier sessions may exist.
TrackedShows == [u \in Users |-> [s \in Shows |-> NoTrackedShowDoc]]

\* a per-user show document as addShow wrote it, with any attentionState
TrackedShowDocs ==
  {[NoTrackedShowDoc EXCEPT !.exists = TRUE, !.title = "show", !.addedAt = T0,
                            !.attentionState = a] :
     a \in AttentionStates \cup {OtherState, NoState}}

InitPage ==
  /\ now = T0
  /\ ticks = 0
  /\ requests = 0
  /\ shows = [s \in Shows |-> NoShowDoc]
  /\ nextToken = LegacyToken + 1
  /\ procs = [p \in Procs |-> IdleProc]
  /\ \E c \in {NoCacheDoc, [NoCacheDoc EXCEPT !.exists = TRUE, !.title = "show",
                                               !.updatedAt = T0]} :
       showsCache = [s \in Shows |-> c]
  /\ cacheEpisodes = [s \in Shows |-> {}]
  /\ upstreamAtFlag = [s \in Shows |-> 0]
  /\ PageClosed
  /\ upEpisodes = CacheUpstream
  /\ users = [u \in Users |-> NoUserDoc]
  /\ userShows = [u \in Users |-> Tracked({})]
  /\ showTracker = [u \in Users |-> NoTrackerDoc]
  /\ watchRecords \in SUBSET Episodes

\* the user tracks show s1
InitWatch ==
  /\ InitPage
  /\ \E d \in TrackedShowDocs :
       showTrackerShows = [TrackedShows EXCEPT ![PageUser][PageShow] = d]

NextWatch ==
  \/ LoadShows
  \/ GetShowDocs
  \/ GetShowMeta
  \/ LoadAllEpisodes
  \/ LoadEpisodes
  \/ GetWatchDocs
  \/ SaveSeasonCount
  \/ \E episode \in Episodes : ToggleEpisodeWatched(episode)
  \/ WriteWatchRecord
  \/ UpsertEpisodesState

SpecWatch == InitWatch /\ [][NextWatch]_vars

\* ------------------------------------------------------- removing a show
\* The user tracks s1, s2, both or neither, opens the page, expands s1 and
\* removes shows; the episode load of s1 may still be running when a show
\* is removed.
InitHome ==
  /\ InitPage
  /\ \E d1, d2 \in TrackedShowDocs \cup {NoTrackedShowDoc} :
       showTrackerShows = [TrackedShows EXCEPT ![PageUser]["s1"] = d1, ![PageUser]["s2"] = d2]

NextHome ==
  \/ LoadShows
  \/ GetShowDocs
  \/ GetShowMeta
  \/ LoadAllEpisodes
  \/ LoadEpisodes
  \/ GetWatchDocs
  \/ SaveSeasonCount
  \/ \E tvdbId \in Shows : HandleRemoveShow(tvdbId)
  \/ GetEpisodesSnap
  \/ CommitWatchDeletes
  \/ DeleteShowDoc

SpecHome == InitHome /\ [][NextHome]_vars

\* -------------------------------------------- concurrent manual refreshes
\* Two refreshShowsNow requests of user u1 are served at the same time, as
\* two instances or two invocations of the function are.
InitRace ==
  /\ InitRefresh
  /\ \E c \in {NoUserDoc, persistAuth(NoUserDoc, "p1", LegacyToken, T0)} :
       users = [u \in Users |-> IF u = "u1" THEN c ELSE NoUserDoc]
  /\ \E S \in {{}, {"s1"}} :
       userShows = [u \in Users |-> IF u = "u1" THEN Tracked(S) ELSE Tracked({})]

NextRace ==
  \/ \E p \in Procs, pin \in {NoPin, "p2"} : StartRefreshShowsNow(p, "u1", pin, TRUE, TRUE)
  \/ \E p \in Procs : Throttle(p)
  \/ \E p \in Procs : RecordRequestTime(p)
  \/ \E p \in Procs : RefreshStep(p)
  \/ TickMillis

SpecRace == InitRace /\ [][NextRace]_vars

\* ---------------------------------------------------- the two show caches
\* User u1, who has stored a PIN in both credential documents and tracks s1,
\* adds show s1, opens its episodes and refreshes, one request at a time.
InitShared ==
  /\ InitCommon
  /\ upEpisodes = CacheUpstream
  /\ users = [u \in Users |-> IF u = "u1" THEN [NoUserDoc EXCEPT !.exists = TRUE, !.tvdbPin = "p1"]
                                          ELSE NoUserDoc]
  /\ userShows = [u \in Users |-> IF u = "u1" THEN Tracked({"s1"}) ELSE Tracked({})]
  /\ showTracker = [u \in Users |-> IF u = "u1"
                                    THEN [NoTrackerDoc EXCEPT !.exists = TRUE, !.tvdbPin = "p1"]
                                    ELSE NoTrackerDoc]

NextShared ==
  \/ StartAddShow("r1", "u1", "s1", TRUE, TRUE)
  \/ StartGetEpisodes("r1", "u1", "s1", NoSeason, TRUE, TRUE)
  \/ CacheStep("r1")
  \/ StartRefreshShowsNow("r1", "u1", NoPin, TRUE, TRUE)
  \/ Throttle("r1")
  \/ RecordRequestTime("r1")
  \/ RefreshStep("r1")
  \/ Return("r1")
  \/ TickMillis
  \/ TickDay

SpecShared == InitShared /\ [][NextShared]_vars

\* ------------------------------------------------------ the order of shows
\* The page of a user with nothing stored shows list after list.
InitOrder ==
  /\ InitHome
  /\ showTrackerShows = TrackedShows
  /\ showsCache = [s \in Shows |-> NoCacheDoc]
  /\ watchRecords = {}

NextOrder == \E data \in ShowLists : SetShows(data)

SpecOrder == InitOrder /\ [][NextOrder]_vars

\* ------------------------------------------------- searching in the dialog
\* The user opens and closes the dialog, edits the search box and chooses
\* results while the searches that were started return in any order.
InitDialog ==
  /\ InitServer
  /\ ShowsClosed
  /\ DialogClosed
  /\ functionsBaseUrl \in {NoUrl, FunctionsUrl}
  /\ watchRecords = {}
  /\ upEpisodes = CacheUpstream
  /\ users = [u \in Users |-> NoUserDoc]
  /\ userShows = [u \in Users |-> Tracked({})]
  /\ showTracker = [u \in Users |-> NoTrackerDoc]

NextDialog ==
  \/ OpenAddDialog
  \/ CloseAddDialog
  \/ \E value \in TypedQueries : SetSearchQuery(value)
  \/ SetDebounced
  \/ \E i \in {1, Len(searchResults)} : SetSelectedShow(i)
  \/ \E k \in 1..MaxRuns : GetIdToken(k)
  \/ \E k \in 1..MaxRuns : FetchSearchShows(k)
  \/ \E k \in 1..MaxRuns : ReadSearchPayload(k)

SpecDialog == InitDialog /\ [][NextDialog]_vars

\* -------------------------------------------- manual and scheduled refreshes
\* Manual refreshes of u1 and scheduled runs over all users, one at a time,
\* while time passes; u1 has a PIN and may hold a token, u2 may have none.
InitTriggers ==
  /\ InitRefresh
  /\ \E c1 \in {[NoUserDoc EXCEPT !.exists = TRUE, !.tvdbPin = "p1"],
                 persistAuth(NoUserDoc, "p1", LegacyToken, T0)},
        c2 \in {NoUserDoc, [NoUserDoc EXCEPT !.exists = TRUE]} :
       users = [u \in Users |-> IF u = "u1" THEN c1 ELSE c2]
  /\ \E S \in {{}, {"s1"}} :
       userShows = [u \in Users |-> IF u = "u1" THEN Tracked(S) ELSE Tracked({})]

NextTriggers ==
  \/ StartRefreshShowsNow("r1", "u1", NoPin, TRUE, TRUE)
  \/ Throttle("r1")
  \/ RecordRequestTime("r1")
  \/ StartRefreshAllUsers("r1")
  \/ RefreshStep("r1")
  \/ Return("r1")
  \/ TickMillis

SpecTriggers == InitTriggers /\ [][NextTriggers]_vars

\* --------------------------------------------------- inside the cooldown
\* User u1, whose last manual refresh was recorded just now, asks for manual
\* refreshes while time passes.
InitCooldown ==
  /\ InitRefresh
  /\ \E c \in {[NoUserDoc EXCEPT !.exists = TRUE, !.lastManualRefreshAt = T0],
               [persistAuth(NoUserDoc, "p1", LegacyToken, T0)
                  EXCEPT !.lastManualRefreshAt = T0]} :
       users = [u \in Users |-> IF u = "u1" THEN c ELSE NoUserDoc]
  /\ \E S \in {{}, {"s1"}} :
       userShows = [u \in Users |-> IF u = "u1" THEN Tracked(S) ELSE Tracked({})]

NextCooldown ==
  \/ \E pin \in {NoPin, "p2"} : StartRefreshShowsNow("r1", "u1", pin, TRUE, TRUE)
  \/ Throttle("r1")
  \/ RecordRequestTime("r1")
  \/ RefreshStep("r1")
  \/ Return("r1")
  \/ TickMillis

SpecCooldown == InitCooldown /\ [][NextCooldown]_vars

\* ================================================================ properties
CallsOf(r, kind) == SelectSeq(r.calls, LAMBDA c : c.kind = kind /\ c.userId = r.userId)

OkCallsOf(r, kind) == SelectSeq(CallsOf(r, kind), LAMBDA c : c.ok)

\* prepareClientForUser has read the credentials and found a PIN to use
Judged(r) == r.checkedAt # NoTime /\ r.pinToUse # NoPin

\* prepareClientForUser has returned its client to refreshUserShows
PrepareReturned(r) == Judged(r) /\ (r.pc = "listShows" \/ Len(CallsOf(r, "listUserShows")) > 0)

\* the stored token is absent, or its expiry is absent or not after the time
\* the credentials were judged
Stale(r) ==
  \/ r.auth.tvdbToken = NoToken
  \/ r.auth.tvdbTokenExpiresAt = NoTime
  \/ ~TimeLT(r.checkedAt, r.auth.tvdbTokenExpiresAt)

\* C1: with a PIN available, prepareClientForUser logs in exactly once when
\* the stored token is absent or its expiry is absent or not after the
\* current time, and on return the new token is stored with an expiry
\* TOKEN_TTL_DAYS days after the write; with an unexpired stored token it
\* makes no login call and no credential write and hands that token on.
C1_TokenLifecycle ==
  \A p \in Procs :
    LET r == procs[p]
        stored == users[r.userId]
    IN Judged(r) =>
         /\ Stale(r) =>
              /\ Len(CallsOf(r, "login")) = (IF r.pc = "login" THEN 0 ELSE 1)
              /\ Len(CallsOf(r, "persistAuth")) <= 1
              /\ PrepareReturned(r) =>
                   /\ Len(OkCallsOf(r, "login")) = 1
                   /\ Len(OkCallsOf(r, "persistAuth")) = 1
                   /\ r.token = OkCallsOf(r, "login")[1].n
                   /\ r.token # r.auth.tvdbToken
                   /\ stored.tvdbToken = r.token
                   /\ stored.tvdbPin = r.pinToUse
                   /\ stored.tvdbTokenExpiresAt.d = r.persistedAt.d + 25
                   /\ stored.tvdbTokenExpiresAt.ms = r.persistedAt.ms
         /\ ~Stale(r) =>
              /\ CallsOf(r, "login") = <<>>
              /\ CallsOf(r, "persistAuth") = <<>>
              /\ getUserAuth(r.userId) = r.auth
              /\ r.pc # "login"
              /\ r.token = r.auth.tvdbToken
              /\ TimeLT(r.checkedAt, r.auth.tvdbTokenExpiresAt)

\* C1 witness: a request found a stored token whose expiry had passed, logged
\* in once and went on with the new token.
C1_Witness ==
  \E p \in Procs :
    LET r == procs[p]
    IN /\ PrepareReturned(r)
       /\ r.auth.tvdbToken # NoToken
       /\ TimeLT(r.auth.tvdbTokenExpiresAt, r.checkedAt)
       /\ Len(CallsOf(r, "login")) = 1
       /\ r.resp.status = 200

\* C2: a PIN supplied with the request is the PIN used, and the call logs
\* in afresh whatever token is stored.
C2_SuppliedPinForcesLogin ==
  \A p \in Procs :
    LET r == procs[p]
    IN (r.pin # NoPin /\ PrepareReturned(r)) =>
         /\ r.pinToUse = r.pin
         /\ Len(CallsOf(r, "login")) = 1

\* C3: a manual refresh that arrives less than 15 minutes after the stored
\* lastManualRefreshAt is answered 429 with the remaining cooldown in whole
\* seconds, rounded up; any other request passes the throttle.
C3_Cooldown ==
  \A p \in Procs :
    LET r == procs[p]
        within == r.lastManual # NoTime
                  /\ TimeLT(r.throttleAt, AddMs(r.lastManual, 15 * 60 * 1000))
        remaining == ElapsedMs(AddMs(r.lastManual, 15 * 60 * 1000), r.throttleAt)
    IN (r.op = "refreshShowsNow" /\ r.throttleAt # NoTime) =>
         /\ within =>
              /\ r.pc = "done"
              /\ r.resp.status = 429
              /\ r.resp.retryAfter * 1000 >= remaining
              /\ (r.resp.retryAfter - 1) * 1000 < remaining
              /\ r.calls = <<>>
         /\ ~within => r.resp.status # 429 /\ (r.pc = "done" => r.calls # <<>>)
         /\ (r.pc = "recordRequest" \/ r.resp.status = 429) =>
              r.lastManual = (IF users[r.userId].exists
                              THEN users[r.userId].lastManualRefreshAt ELSE NoTime)

\* C3 witness: a request 899001 ms into the cooldown is told to retry after
\* one second (999 ms rounded up).
C3_Witness ==
  \E p \in Procs :
    LET r == procs[p]
    IN /\ r.resp.status = 429
       /\ r.resp.retryAfter = 1
       /\ ElapsedMs(r.throttleAt, r.lastManual) = 899001

\* C10: with no stored PIN and none supplied, prepareClientForUser throws
\* MissingPinError: no login, no credential write, no client call, and the
\* stored PIN, token and expiry stay as they were read.
C10_MissingPin ==
  \A p \in Procs :
    LET r == procs[p]
    IN (r.checkedAt # NoTime /\ r.pin = NoPin /\ r.auth.tvdbPin = NoPin) =>
         /\ r.pc = "done"
         /\ r.resp.status = 400
         /\ r.resp.code = "MISSING_PIN"
         /\ CallsOf(r, "login") = <<>>
         /\ CallsOf(r, "persistAuth") = <<>>
         /\ CallsOf(r, "listUserShows") = <<>>
         /\ CallsOf(r, "fetchShow") = <<>>
         /\ r.token = NoToken
         /\ getUserAuth(r.userId) = r.auth

\* C10 witness: a user whose record holds a token but no PIN asks for a
\* refresh without a PIN and is answered 400.
C10_Witness ==
  \E p \in Procs :
    LET r == procs[p]
    IN /\ r.checkedAt # NoTime
       /\ r.pin = NoPin
       /\ r.auth.tvdbPin = NoPin
       /\ users[r.userId].exists
       /\ r.resp.status = 400

\* ------------------------------------------------------- the batch refresh
ShowCallKinds == {"fetchShow", "fetchEpisodes", "setShow", "setUserShow"}

RECURSIVE SumOver(_, _)
SumOver(S, f) ==
  IF S = {} THEN 0
  ELSE LET x == CHOOSE y \in S : TRUE IN f[x] + SumOver(S \ {x}, f)

SeqToSet(q) == {q[i] : i \in 1..Len(q)}

\* the calls run r made for show s of user u
CallsFor(r, u, s) ==
  SelectSeq(r.calls, LAMBDA c : c.userId = u /\ c.tvdbId = s /\ c.kind \in ShowCallKinds)

\* both fetches and both writes for show s of user u returned
ShowRefreshed(r, u, s) ==
  \A k \in ShowCallKinds : \E i \in 1..Len(r.calls) :
    r.calls[i] = Call(k, u, s, TRUE, r.calls[i].n)

\* one of the calls for show s of user u threw
ShowThrew(r, u, s) == \E i \in 1..Len(CallsFor(r, u, s)) : ~CallsFor(r, u, s)[i].ok

\* the number of episodes fetchEpisodes returned for show s of user u
FetchedCount(r, u, s) ==
  LET got == SelectSeq(r.calls, LAMBDA c : c = Call("fetchEpisodes", u, s, TRUE, c.n))
  IN IF got = <<>> THEN 0 ELSE got[1].n

\* the shows fetchShow was called for, in call order
Attempted(r, u) ==
  LET q == SelectSeq(r.calls, LAMBDA c : c.kind = "fetchShow" /\ c.userId = u)
  IN [i \in 1..Len(q) |-> q[i].tvdbId]

RefreshedShows(r, u) == {s \in Shows : ShowRefreshed(r, u, s)}

\* C6: refreshUserShows attempts every tracked show once, in enumeration
\* order, whatever fails on the way; updatedShows counts the shows whose two
\* fetches and two writes all returned and updatedEpisodes adds up the
\* episodes fetched for exactly those shows.
C6_PerShowIsolation ==
  \A p \in Procs :
    LET r == procs[p]
        u == r.userId
    IN r.pc = "recordRefresh" =>
         /\ Attempted(r, u) = r.listed
         /\ r.updatedShows = Cardinality(RefreshedShows(r, u))
         /\ r.updatedEpisodes =
              SumOver(RefreshedShows(r, u), [s \in Shows |-> FetchedCount(r, u, s)])
         /\ RefreshedShows(r, u) \subseteq SeqToSet(r.listed)

\* C6 witness: the first of two tracked shows failed, the second was still
\* refreshed and alone is counted, with its 50 fetched episodes.
C6_Witness ==
  \E p \in Procs :
    LET r == procs[p]
    IN /\ r.pc = "recordRefresh"
       /\ r.listed = <<"s1", "s2">>
       /\ ShowThrew(r, r.userId, "s1")
       /\ ShowRefreshed(r, r.userId, "s2")
       /\ r.updatedShows = 1
       /\ r.updatedEpisodes = 50

\* the users prepareClientForUser was called for, in call order
Processed(r) ==
  LET q == SelectSeq(r.calls, LAMBDA c : c.kind = "getUserAuth")
  IN [i \in 1..Len(q) |-> q[i].userId]

\* the iteration of user u ran to its end: the timestamp write returned
Completed(r, u) ==
  \E i \in 1..Len(r.calls) : r.calls[i] = Call("recordRefreshTimestamp", u, "scheduled", TRUE, 0)

\* C7: refreshAllUsers processes every enumerated user once, in order; a
\* user whose iteration throws adds one to failures and nothing else, and the
\* run goes on; the returned sums are those of the users that did not fail.
C7_PerUserIsolation ==
  \A p \in Procs :
    LET r == procs[p]
        done == {u \in Users : Completed(r, u)}
        enumerated == SeqToSet(r.enumerated)
    IN (r.op = "refreshAllUsers" /\ r.pc = "done") =>
         /\ Processed(r) = r.enumerated
         /\ done \subseteq enumerated
         /\ r.resp.failures = Cardinality(enumerated \ done)
         /\ r.resp.failures <= Len(r.enumerated)
         /\ r.resp.updatedShows =
              SumOver(done, [u \in Users |-> Cardinality(RefreshedShows(r, u))])
         /\ r.resp.updatedEpisodes =
              SumOver(done, [u \in Users |->
                SumOver(RefreshedShows(r, u), [s \in Shows |-> FetchedCount(r, u, s)])])

\* C7 witness: the first user failed, the second was still refreshed.
C7_Witness ==
  \E p \in Procs :
    LET r == procs[p]
    IN /\ r.op = "refreshAllUsers"
       /\ r.pc = "done"
       /\ r.enumerated = <<"u1", "u2">>
       /\ ~Completed(r, "u1")
       /\ Completed(r, "u2")
       /\ r.resp.failures = 1
       /\ r.resp.updatedShows = 1

\* C8: the summary of a manual refresh reports the shows that failed:
\* failures is their number and updatedShows + failures is the number of
\* tracked shows.
C8_FailuresReported ==
  \A p \in Procs :
    LET r == procs[p]
        failed == {s \in Shows : ShowThrew(r, r.userId, s)}
    IN (r.op = "refreshShowsNow" /\ r.resp.status = 200) =>
         /\ r.resp.failures = Cardinality(failed)
         /\ r.resp.updatedShows + r.resp.failures = Len(r.listed)

\* -------------------------------------------- the scheduled-refresh timestamp
\* the credential read of user u returned and found no PIN
NoPinSeen(r, u) ==
  \E i \in 1..Len(r.calls) : r.calls[i] = Call("getUserAuth", u, NoPin, TRUE, 0)

\* prepareClientForUser returned for user u and refreshUserShows did not
\* throw: the listing of u's tracked shows returned (everything after it in
\* refreshUserShows is caught per show)
RefreshReturned(r, u) ==
  \E i \in 1..Len(r.calls) : r.calls[i] = Call("listUserShows", u, "", TRUE, r.calls[i].n)

\* the write of user u's scheduled-refresh timestamp threw
TimestampThrew(r, u) ==
  \E i \in 1..Len(r.calls) : r.calls[i] = Call("recordRefreshTimestamp", u, "scheduled", FALSE, 0)

\* the log lines refreshAllUsers wrote for user u
LoggedFor(r, u) == SelectSeq(r.logged, LAMBDA l : l.userId = u)

TracksNothing(u) == \A s \in Shows : ~userShows[u][s].exists

ScheduledStampWritten(u) == users[u].lastScheduledRefreshAt # NoTime

\* C9 (as stated): at the end of refreshAllUsers a user without tracked shows
\* whose client was prepared adds nothing to the counts and has the scheduled
\* timestamp; a user without a PIN is one failure logged MISSING_PIN and has
\* no timestamp; lastScheduledRefreshAt is written iff client preparation and
\* show refresh did not throw.
C9_ScheduledTimestamp ==
  \A p \in Procs :
    LET r == procs[p]
    IN (r.op = "refreshAllUsers" /\ r.pc = "done") =>
         \A u \in SeqToSet(r.enumerated) :
           /\ (TracksNothing(u) /\ RefreshReturned(r, u)) =>
                /\ RefreshedShows(r, u) = {}
                /\ LoggedFor(r, u) = <<>>
                /\ ScheduledStampWritten(u)
           /\ NoPinSeen(r, u) =>
                /\ LoggedFor(r, u) = << [userId |-> u, code |-> "MISSING_PIN"] >>
                /\ ~ScheduledStampWritten(u)
           /\ ScheduledStampWritten(u) <=> RefreshReturned(r, u)

\* C9 (amended): the same, except that the timestamp write itself can throw:
\* lastScheduledRefreshAt is written iff client preparation, show refresh and
\* the timestamp write did not throw, and a user whose timestamp write threw
\* is one failure logged REFRESH_USER_ERROR, tracked shows or not.
C9_ScheduledTimestampAmended ==
  \A p \in Procs :
    LET r == procs[p]
        failedUsers == {u \in SeqToSet(r.enumerated) : LoggedFor(r, u) # <<>>}
    IN (r.op = "refreshAllUsers" /\ r.pc = "done") =>
         /\ r.resp.failures = Cardinality(failedUsers)
         /\ \A u \in SeqToSet(r.enumerated) :
              /\ (TracksNothing(u) /\ RefreshReturned(r, u)) =>
                   /\ RefreshedShows(r, u) = {}
                   /\ CallsFor(r, u, "s1") = <<>> /\ CallsFor(r, u, "s2") = <<>>
                   /\ IF TimestampThrew(r, u)
                      THEN /\ LoggedFor(r, u) = << [userId |-> u, code |-> "REFRESH_USER_ERROR"] >>
                           /\ ~ScheduledStampWritten(u)
                      ELSE /\ LoggedFor(r, u) = <<>>
                           /\ ScheduledStampWritten(u)
              /\ NoPinSeen(r, u) =>
                   /\ LoggedFor(r, u) = << [userId |-> u, code |-> "MISSING_PIN"] >>
                   /\ ~ScheduledStampWritten(u)
                   /\ ~RefreshReturned(r, u)
              /\ ScheduledStampWritten(u) <=> (RefreshReturned(r, u) /\ ~TimestampThrew(r, u))
              /\ ScheduledStampWritten(u) <=> Completed(r, u)
              /\ ScheduledStampWritten(u) <=> (LoggedFor(r, u) = <<>>)

\* C9 witness: in one run, a user without shows got the timestamp and added
\* nothing, and a user without a PIN was skipped as MISSING_PIN.
C9_Witness ==
  \E p \in Procs :
    LET r == procs[p]
    IN /\ r.op = "refreshAllUsers"
       /\ r.pc = "done"
       /\ r.enumerated = <<"u1", "u2">>
       /\ NoPinSeen(r, "u1")
       /\ ~ScheduledStampWritten("u1")
       /\ TracksNothing("u2")
       /\ RefreshReturned(r, "u2")
       /\ ScheduledStampWritten("u2")
       /\ r.resp.failures = 1
       /\ r.resp.updatedShows = 0

\* ------------------------------------------------------- the episode cache
\* the kinds of call that reach the upstream provider
UpstreamCallKinds == {"login", "fetchShowExtended", "fetchEpisodesPage"}

\* the kinds of call that write to the shared cache
CacheWriteKinds == {"setShowCache", "commitBatch", "setHasAllEpisodes"}

\* C4: hasAllEpisodes = true on a cache document implies that the episode
\* cache holds every episode the upstream list had when the flag was set.
C4_FlagMeansComplete ==
  \A s \in Shows :
    (showsCache[s].exists /\ showsCache[s].hasAllEpisodes) =>
      (1 .. upstreamAtFlag[s]) \subseteq cacheEpisodes[s]

\* C5: a getEpisodes request that finds hasAllEpisodes = true makes no
\* upstream call, writes nothing to the cache and answers with the cached
\* episodes, those of the requested season when a season is given.
C5_ServedFromCache ==
  \A p \in Procs :
    LET r == procs[p]
        ofSeason == {e \in cacheEpisodes[r.tvdbId] :
                       \/ r.seasonNumber = NoSeason
                       \/ EpisodeDoc(UpstreamEpisode(e)).seasonNumber = r.seasonNumber}
    IN (r.op = "getEpisodes" /\ r.hasAllEpisodes) =>
         /\ \A i \in 1..Len(r.calls) :
              r.calls[i].kind \notin (UpstreamCallKinds \cup CacheWriteKinds)
         /\ r.resp.status = 200 => r.resp.episodes = ofSeason

\* ------------------------------------------------------------ error mapping
\* the calls refreshUser makes outside the per-show try block
RefreshUserCallKinds ==
  {"getUserAuth", "login", "persistAuth", "listUserShows", "recordRefreshTimestamp"}

\* a call of refreshUser for the request's user threw something other than
\* MissingPinError
RefreshUserThrew(r) ==
  \E i \in 1..Len(r.calls) :
    /\ r.calls[i].kind \in RefreshUserCallKinds
    /\ r.calls[i].userId = r.userId
    /\ ~r.calls[i].ok

\* C11: mapRefreshErrorToResponse maps MissingPinError to 400 and any other
\* failure to 500, and a manual refresh whose refreshUser threw is answered
\* with exactly the mapped status and code, never 200; 200 is the answer
\* only when nothing was thrown.
C11_ErrorMapping ==
  /\ mapRefreshErrorToResponse("MissingPinError") = [code |-> "MISSING_PIN", status |-> 400]
  /\ mapRefreshErrorToResponse("Error") = [code |-> "REFRESH_FAILED", status |-> 500]
  /\ \A p \in Procs :
       LET r == procs[p]
       IN (r.op = "refreshShowsNow" /\ r.pc = "done" /\ r.calls # <<>>) =>
            /\ NoPinSeen(r, r.userId) <=> (r.resp.status = 400 /\ r.resp.code = "MISSING_PIN")
            /\ RefreshUserThrew(r) <=> (r.resp.status = 500 /\ r.resp.code = "REFRESH_FAILED")
            /\ (~NoPinSeen(r, r.userId) /\ ~RefreshUserThrew(r)) <=> r.resp.status = 200
            /\ r.resp.status \in {200, 400, 500}

\* C11 witness: the upstream rejected the login of a manual refresh, which
\* was answered 500 REFRESH_FAILED.
C11_Witness ==
  \E p \in Procs :
    LET r == procs[p]
    IN /\ r.op = "refreshShowsNow"
       /\ r.pc = "done"
       /\ Len(CallsOf(r, "login")) = 1
       /\ ~CallsOf(r, "login")[1].ok
       /\ r.resp.status = 500
       /\ r.resp.code = "REFRESH_FAILED"

\* ------------------------------------------------ from saved PIN to refresh
\* the PIN user u has saved through saveTvdbPin
SavedPin(u) == IF showTracker[u].exists THEN showTracker[u].tvdbPin ELSE NoPin

IsRefresh(r) == r.op \in {"refreshShowsNow", "refreshAllUsers"}

\* C12: after a successful saveTvdbPin(u, p) the credentials that
\* prepareClientForUser reads for u hold PIN p and no token, and a later
\* refresh of u without a PIN override uses p and logs in afresh with it.
C12_SavedPinIsRead ==
  \A p \in Procs :
    LET r == procs[p]
    IN /\ (r.op = "saveTvdbPin" /\ r.resp.status = 200) =>
            /\ getUserAuth(r.userId).tvdbPin = r.pin
            /\ getUserAuth(r.userId).tvdbToken = NoToken
       /\ (IsRefresh(r) /\ r.pin = NoPin /\ SavedPin(r.userId) # NoPin
           /\ r.checkedAt # NoTime) =>
            /\ r.pinToUse = SavedPin(r.userId)
            /\ PrepareReturned(r) => Len(OkCallsOf(r, "login")) = 1

\* C13: for a user who has saved a PIN, refreshAllUsers enumerates the user
\* and does not skip the user with MISSING_PIN, and a manual refresh without
\* a PIN in the body is not answered with the missing-PIN error.
C13_UnattendedRefresh ==
  \A p \in Procs :
    LET r == procs[p]
    IN /\ (r.op = "refreshAllUsers") =>
            \A u \in Users :
              SavedPin(u) # NoPin =>
                /\ u \in SeqToSet(r.enumerated)
                /\ ~NoPinSeen(r, u)
       /\ (r.op = "refreshShowsNow" /\ r.pin = NoPin /\ SavedPin(r.userId) # NoPin) =>
            r.resp.code # "MISSING_PIN"

\* the shows user u has added through addShow
AddedShows(u) == {s \in Shows : showTrackerShows[u][s].exists}

\* C14: after a manual refresh of user u in which every call returned, each
\* show u has added was enumerated by refreshUserShows, has its per-user
\* lastRefreshAt stamped and is counted in updatedShows.
C14_AddedShowsRefreshed ==
  \A p \in Procs :
    LET r == procs[p]
    IN (r.op = "refreshShowsNow" /\ r.resp.status = 200
        /\ \A i \in 1..Len(r.calls) : r.calls[i].ok) =>
         /\ \A s \in AddedShows(r.userId) :
              /\ s \in SeqToSet(r.listed)
              /\ userShows[r.userId][s].lastRefreshAt # NoTime
         /\ r.resp.updatedShows >= Cardinality(AddedShows(r.userId))

\* ------------------------------------------------------------ fetchAllEpisodes
\* the episodes of the pages in `read`, in page order
RECURSIVE ConcatPages(_)
ConcatPages(read) ==
  IF read = <<>> THEN <<>>
  ELSE ConcatPages(SubSeq(read, 1, Len(read) - 1))
       \o [j \in 1 .. read[Len(read)].count |-> read[Len(read)].page * UPSTREAM_PAGE + j]

\* fetchAllEpisodes has returned to getEpisodes
FetchReturned(r) ==
  /\ r.op = "getEpisodes"
  /\ r.read # <<>>
  /\ r.pc # "fetchPage"
  /\ \A i \in 1..Len(r.calls) : r.calls[i].kind = "fetchEpisodesPage" => r.calls[i].ok

\* C15: fetchAllEpisodes requests pages 0, 1, 2, ... in order and returns
\* the episodes of the pages it read, in page order; it requests no page
\* after an empty page, a page of fewer than 50 episodes or the 50th page,
\* and it stops for one of these reasons only.
C15_FetchAllEpisodes ==
  \A p \in Procs :
    LET r == procs[p]
        n == Len(r.read)
        requested == SelectSeq(r.calls, LAMBDA c : c.kind = "fetchEpisodesPage")
    IN r.op = "getEpisodes" =>
         /\ \A i \in 1..n : r.read[i].page = i - 1
         /\ \A i \in 1..Len(requested) : requested[i].n = i - 1
         /\ n <= 50
         /\ \A i \in 1..(n - 1) : r.read[i].count >= 50
         /\ r.all = ConcatPages(r.read)
         /\ r.pc = "fetchPage" => (n < 50 /\ \A i \in 1..n : r.read[i].count >= 50)
         /\ FetchReturned(r) =>
              /\ Len(requested) = n
              /\ \/ r.read[n].count = 0
                 \/ r.read[n].count < 50
                 \/ n = 50

\* C15 witness: three full pages and an empty fourth: the 150 episodes of the
\* three pages are returned and no fifth request is made.
C15_Witness ==
  \E p \in Procs :
    LET r == procs[p]
    IN /\ FetchReturned(r)
       /\ r.read = << [page |-> 0, count |-> 50], [page |-> 1, count |-> 50],
                      [page |-> 2, count |-> 50], [page |-> 3, count |-> 0] >>
       /\ r.all = [j \in 1..150 |-> j]

\* ------------------------------------------------------------------- addShow
\* the position of the first call of the given kind in the call log, 0 if none
FirstCall(r, kind) ==
  IF \E i \in 1..Len(r.calls) : r.calls[i].kind = kind
  THEN CHOOSE i \in 1..Len(r.calls) :
         /\ r.calls[i].kind = kind
         /\ \A j \in 1..(i - 1) : r.calls[j].kind # kind
  ELSE 0

CountCalls(r, kind) == Len(SelectSeq(r.calls, LAMBDA c : c.kind = kind))

\* C16: an addShow answered 200 has called fetchShowExtended, then written
\* the cache document with hasAllEpisodes = false, then written the user's
\* show document referring to it, once each, and echoes the show with the
\* requested id; when the upstream fetch fails neither document is written
\* and the answer is 500 add_show_failed.
C16_AddShow ==
  \A p \in Procs :
    LET r == procs[p]
        fetch == FirstCall(r, "fetchShowExtended")
        cache == FirstCall(r, "setShowCache")
        entry == FirstCall(r, "setTrackedShow")
    IN r.op = "addShow" =>
         /\ r.resp.status = 200 =>
              /\ 0 < fetch /\ fetch < cache /\ cache < entry
              /\ \A k \in {"fetchShowExtended", "setShowCache", "setTrackedShow"} :
                   CountCalls(r, k) = 1
              /\ \A i \in 1..Len(r.calls) : r.calls[i].ok /\ r.calls[i].tvdbId \in {r.tvdbId, r.pinToUse}
              /\ showsCache[r.tvdbId].exists
              /\ ~showsCache[r.tvdbId].hasAllEpisodes
              /\ showTrackerShows[r.userId][r.tvdbId].exists
              /\ showTrackerShows[r.userId][r.tvdbId].showRef = r.tvdbId
              /\ r.resp.show.id = r.tvdbId
         /\ (fetch > 0 /\ ~r.calls[fetch].ok) =>
              /\ r.resp.status = 500
              /\ r.resp.code = "add_show_failed"
              /\ cache = 0
              /\ entry = 0
         /\ cache > 0 => (fetch > 0 /\ r.calls[fetch].ok)

\* C16 witness: a show whose cache was complete is added again: the cache
\* document is written with hasAllEpisodes = false and the request answered 200.
C16_Witness ==
  \E p \in Procs :
    LET r == procs[p]
    IN /\ r.op = "addShow"
       /\ r.resp.status = 200
       /\ showsCache[r.tvdbId].episodesUpdatedAt # NoTime
       /\ ~showsCache[r.tvdbId].hasAllEpisodes
       /\ r.resp.show.id = r.tvdbId

\* ------------------------------------------------------------ the handlers
Handlers == {"searchShows", "addShow", "getEpisodes", "saveTvdbPin", "refreshShowsNow"}

\* C17: a request to any handler whose bearer token is missing or invalid
\* is answered 401 and makes no store call and no upstream call, whatever
\* its other parameters and the configuration.
C17_UnauthorizedFirst ==
  \A p \in Procs :
    LET r == procs[p]
    IN (r.op \in Handlers /\ ~r.bearerOk) =>
         /\ r.pc = "done"
         /\ r.resp.status = 401
         /\ r.calls = <<>>

\* the length of a query without its leading and trailing blanks
TrimmedLength(q) ==
  LET solid == {i \in 1..Len(q) : q[i] # " "}
  IN IF solid = {} THEN 0
     ELSE (CHOOSE i \in solid : \A j \in solid : j <= i)
          - (CHOOSE i \in solid : \A j \in solid : i <= j) + 1

Qualifies(item) ==
  /\ (item.tvdb_id.given \/ item.id.given)
  /\ (IF item.tvdb_id.given THEN item.tvdb_id.rest ELSE item.id.rest) # ""
  /\ item.name.given
  /\ item.name.text # ""

\* C19: searchShows returns the upstream results that have an id and a
\* name, in upstream order, cut to the first 15, each id without "series-";
\* a result without an id or without a name is dropped.
C19_SearchResults ==
  \A p \in Procs :
    LET r == procs[p]
        qualifying == SelectSeq(r.data, Qualifies)
        n == IF Len(qualifying) < 15 THEN Len(qualifying) ELSE 15
    IN (r.op = "searchShows" /\ r.resp.status = 200) =>
         /\ Len(r.resp.results) = n
         /\ \A i \in 1..n :
              /\ r.resp.results[i].id =
                   (IF qualifying[i].tvdb_id.given THEN qualifying[i].tvdb_id.rest
                                                   ELSE qualifying[i].id.rest)
              /\ r.resp.results[i].name = qualifying[i].name.text
\* ------------------------------------------------------- watched, unwatched
\* the page is at rest: the episodes are loaded and no toggle is in flight
AtRest == episodesByShow.loaded /\ toggling.pc = "idle"

\* toggle j is the first successful toggle after toggle i
NextSuccessful(i, j) ==
  /\ i < j
  /\ toggled[i].ok
  /\ toggled[j].ok
  /\ \A k \in (i + 1)..(j - 1) : ~toggled[k].ok

\* toggles i and j mark an episode watched and then the same episode unwatched
WatchThenUnwatch(i, j) ==
  /\ NextSuccessful(i, j)
  /\ toggled[i].willWatch
  /\ ~toggled[j].willWatch
  /\ toggled[j].episode = toggled[i].episode

\* C20: toggling an unwatched episode e to watched creates exactly one
\* watch-state record, the one of e; toggling it back to unwatched deletes
\* exactly that record, so that the set of watch records and the unwatched
\* count after the pair equal those before it; after each successful toggle
\* the flag the page shows for e equals the existence of e's record.  A
\* toggle whose write is rejected changes neither the records nor the flags.
C20_ToggleWatched ==
  /\ \A i \in 1..Len(toggled) :
       LET t == toggled[i]
       IN IF t.ok
          THEN /\ t.willWatch =>
                    /\ t.episode \notin t.before
                    /\ t.after = t.before \cup {t.episode}
                    /\ t.unwatchedAfter = t.unwatchedBefore - 1
               /\ ~t.willWatch =>
                    /\ t.episode \in t.before
                    /\ t.after = t.before \ {t.episode}
                    /\ t.unwatchedAfter = t.unwatchedBefore + 1
               /\ t.watched = (t.episode \in t.after)
               /\ t.watched = t.willWatch
          ELSE /\ t.after = t.before
               /\ t.unwatchedAfter = t.unwatchedBefore
  /\ \A i, j \in 1..Len(toggled) :
       WatchThenUnwatch(i, j) =>
         /\ toggled[j].after = toggled[i].before
         /\ toggled[j].unwatchedAfter = toggled[i].unwatchedBefore
  /\ AtRest => \A e \in Episodes : episodesByShow.watched[e] = (e \in watchRecords)

\* an unwatched episode was marked watched and then unwatched again while
\* another episode's record existed all along
C20_Witness ==
  \E i, j \in 1..Len(toggled) :
    /\ WatchThenUnwatch(i, j)
    /\ toggled[i].before # {}
    /\ AtRest
\* ---------------------------------------------------------- removing a show
\* the position of the first call of that kind among the calls of a removal,
\* 0 when there is none
CallAt(calls, kind) ==
  IF \E i \in 1..Len(calls) : calls[i] = kind
  THEN CHOOSE i \in 1..Len(calls) : calls[i] = kind /\ \A k \in 1..(i - 1) : calls[k] # kind
  ELSE 0

\* what handleRemoveShow itself did, call by call: on success the document
\* and the records it found are deleted, the records first, the cache is
\* left alone and the show leaves the list; on failure the show stays listed
RemovalAsCoded(t) ==
  IF t.ok
  THEN /\ ~t.doc
       /\ t.records = {}
       /\ t.cache = t.cacheBefore
       /\ ~t.listed
       /\ t.calls[Len(t.calls)] = "deleteDoc"
       /\ CallAt(t.calls, "getDocs") = 1
       /\ t.before # {} =>
            /\ t.snap = t.before
            /\ CallAt(t.calls, "commit") > 0
            /\ CallAt(t.calls, "commit") < CallAt(t.calls, "deleteDoc")
  ELSE /\ t.listed
       /\ CallAt(t.calls, "commit") = 0 => t.records = t.before

\* C21: after handleRemoveShow has succeeded for a show (and the show was
\* not added again), the user's per-user document of the show and all its
\* watch-state records do not exist, the shared cache document of the show
\* is what it was before, and the show is not in the displayed list; the
\* watch-state records were deleted by a call that came before the delete of
\* the show document; and when a call of the removal failed, the show is
\* still in the list.
C21_RemoveShow ==
  \A i \in 1..Len(removed) :
    /\ RemovalAsCoded(removed[i])
    /\ removed[i].ok =>
         /\ ~showTrackerShows[PageUser][removed[i].tvdbId].exists
         /\ watchRecordsOf(removed[i].tvdbId) = {}
         /\ showsCache[removed[i].tvdbId] = removed[i].cacheBefore
         /\ ~InList(showList.shows, removed[i].tvdbId)
\* ------------------------------------------------------- the cooldown race
\* the request has made its cooldown read
CooldownRead(r) == r.op = "refreshShowsNow" /\ r.throttleAt # NoTime

\* the value the request read lies less than 15 minutes before its read
ReadWithinCooldown(r) ==
  /\ r.lastManual # NoTime
  /\ TimeLT(r.throttleAt, AddMs(r.lastManual, 15 * 60 * 1000))

\* refreshUser was entered: prepareClientForUser has read the credentials
RanRefreshUser(r) == Len(CallsOf(r, "getUserAuth")) > 0

\* C22: the cooldown check is a read followed, in a later step, by a write:
\* a request is rejected exactly when the value it read itself lies within
\* the cooldown, whatever other requests are in flight; so of two requests
\* of one user that both read lastManualRefreshAt before either has written
\* it (both read the same value, outside the cooldown) neither is rejected,
\* both write lastManualRefreshAt and both go on to refreshUser.
C22_CooldownRace ==
  /\ \A p \in Procs :
       CooldownRead(procs[p]) =>
         (procs[p].resp.status = 429 <=> ReadWithinCooldown(procs[p]))
  /\ \A p, q \in Procs :
       LET r1 == procs[p]
           r2 == procs[q]
       IN (/\ p # q
           /\ CooldownRead(r1) /\ CooldownRead(r2)
           /\ r1.userId = r2.userId
           /\ r1.lastManual = r2.lastManual
           /\ ~ReadWithinCooldown(r1)) =>
            \A r \in {r1, r2} :
              /\ r.resp.status # 429
              /\ r.pc # "recordRequest" => Len(OkCallsOf(r, "setLastManualRefreshAt")) = 1
              /\ r.pc \notin {"recordRequest", "prepare"} => RanRefreshUser(r)

\* two requests of u1 that both read before either wrote have both run
\* refreshUser to the end, less than 15 minutes after the first began
C22_Witness ==
  /\ procs["r1"].userId = procs["r2"].userId
  /\ \A p \in Procs :
       /\ CooldownRead(procs[p])
       /\ procs[p].lastManual = NoTime
       /\ procs[p].pc = "done"
       /\ procs[p].resp.status = 200
       /\ RanRefreshUser(procs[p])
  /\ ElapsedMs(now, T0) < MANUAL_REFRESH_COOLDOWN_MS
\* ------------------------------------------------------------ merge writes
\* a stored document without the server timestamp of the show write
IgnoreTimes(doc) == [doc EXCEPT !.updatedAt = NoTime]

\* the stored document already holds the fields addShow writes for the show
HoldsShowFields(doc, tvdbId) == doc.exists /\ doc.title = tvdbId /\ ~doc.hasAllEpisodes

\* the stored document already holds the fields the refresh writes
HoldsRefreshFields(doc, tvdbId, episodes) ==
  doc.exists /\ doc.title = tvdbId /\ doc.latestEpisodeAirDate = latestEpisodeAirDate(episodes)

\* C23: a step that writes a show cache document (addShow's write of
\* show-tracker/cache/shows/{tvdbId}, the refresh's write of shows/{tvdbId})
\* writes that one document and nothing else; when the document already
\* holds the same show fields the step leaves it as it is but for the write's
\* timestamp; and fields the write does not name, such as episodesUpdatedAt
\* written by getEpisodes, keep their values.  No step of a refresh changes
\* the cache document getEpisodes wrote.
C23_MergeWrites ==
  [][LET r == procs["r1"]
     IN /\ r.pc = "writeShowCache" =>
             /\ \A s \in Shows \ {r.tvdbId} : showsCache'[s] = showsCache[s]
             /\ showsCache'[r.tvdbId].episodesUpdatedAt = showsCache[r.tvdbId].episodesUpdatedAt
             /\ cacheEpisodes' = cacheEpisodes
             /\ shows' = shows
             /\ HoldsShowFields(showsCache[r.tvdbId], r.tvdbId) =>
                  IgnoreTimes(showsCache'[r.tvdbId]) = IgnoreTimes(showsCache[r.tvdbId])
        /\ r.pc = "writeShow" =>
             /\ \A s \in Shows \ {Head(r.docs)} : shows'[s] = shows[s]
             /\ showsCache' = showsCache
             /\ HoldsRefreshFields(shows[Head(r.docs)], Head(r.docs), r.episodes) =>
                  IgnoreTimes(shows'[Head(r.docs)]) = IgnoreTimes(shows[Head(r.docs)])
        /\ r.op = "refreshShowsNow" => showsCache' = showsCache /\ cacheEpisodes' = cacheEpisodes
    ]_vars

\* addShow has written the cache document of a show whose episodes
\* getEpisodes had cached before: episodesUpdatedAt is still there
C23_Witness ==
  /\ procs["r1"].op = "addShow"
  /\ procs["r1"].resp.status = 200
  /\ showsCache["s1"].episodesUpdatedAt # NoTime
  /\ ~showsCache["s1"].hasAllEpisodes
\* ------------------------------------------------- the missing-PIN response
\* C24: a manual refresh that found no PIN, stored or supplied, is answered
\* 400 with the error code "pin_required".
C24_PinRequired ==
  \A p \in Procs :
    LET r == procs[p]
    IN (r.op = "refreshShowsNow" /\ r.pc = "done" /\ NoPinSeen(r, r.userId)) =>
         /\ r.resp.status = 400
         /\ r.resp.code = "pin_required"
\* ------------------------------------------------------ the order of shows
\* where the show with that id stands in a list
PositionIn(list, id) == CHOOSE i \in 1..Len(list) : list[i].id = id

IsState(show, state) == show.attentionState = state

\* the show's state is none of the three attention states
IsOther(show) == show.attentionState \notin {"new-unwatched", "unwatched", "watched"}

\* both shows are in the same one of the four groups
SameGroup(a, b) ==
  \/ \E state \in {"new-unwatched", "unwatched", "watched"} : IsState(a, state) /\ IsState(b, state)
  \/ IsOther(a) /\ IsOther(b)

\* C25: the displayed list holds the loaded shows, each once, with every
\* new-unwatched show before every unwatched show, every unwatched show
\* before every watched show, and the shows with another or no state last;
\* shows of the same group stand in their loaded order.
C25_AttentionOrder ==
  LET loaded == showList.shows
      shown == showList.ordered
  IN /\ Len(shown) = Len(loaded)
     /\ \A i \in 1..Len(loaded) : \E j \in 1..Len(shown) : shown[j] = loaded[i]
     /\ \A i, j \in 1..Len(shown) :
          /\ (IsState(shown[i], "new-unwatched") /\ ~IsState(shown[j], "new-unwatched")) => i < j
          /\ (IsState(shown[i], "unwatched") /\ IsState(shown[j], "watched")) => i < j
          /\ (~IsOther(shown[i]) /\ IsOther(shown[j])) => i < j
          /\ (i < j /\ SameGroup(shown[i], shown[j])) =>
               PositionIn(loaded, shown[i].id) < PositionIn(loaded, shown[j].id)

\* a show with an unknown state was loaded first, then one with no state,
\* then a new-unwatched one, which is displayed first
C25_Witness ==
  /\ Len(showList.shows) = 3
  /\ showList.shows[1].attentionState = OtherState
  /\ showList.shows[2].attentionState = NoState
  /\ showList.shows[3].attentionState = "new-unwatched"
  /\ showList.ordered = <<showList.shows[3], showList.shows[1], showList.shows[2]>>
\* ------------------------------------------------- timestamps by trigger
\* the user document but for its two refresh timestamps
IgnoreRefreshTimes(doc) ==
  [doc EXCEPT !.lastManualRefreshAt = NoTime, !.lastScheduledRefreshAt = NoTime]

\* C26: no step of a scheduled run changes any user's lastManualRefreshAt,
\* no step of a manual refresh changes any user's lastScheduledRefreshAt or
\* another user's lastManualRefreshAt, and the step that records the refresh
\* timestamp changes nothing else of the user document; so the value the
\* cooldown check reads is never written by a scheduled refresh.
C26_TimestampsByTrigger ==
  [][LET r == procs["r1"]
     IN /\ r.op = "refreshAllUsers" =>
             \A u \in Users : users'[u].lastManualRefreshAt = users[u].lastManualRefreshAt
        /\ r.op = "refreshShowsNow" =>
             \A u \in Users :
               /\ users'[u].lastScheduledRefreshAt = users[u].lastScheduledRefreshAt
               /\ u # r.userId => users'[u] = users[u]
        /\ r.pc = "recordRefresh" =>
             \A u \in Users :
               /\ users[u].exists => IgnoreRefreshTimes(users'[u]) = IgnoreRefreshTimes(users[u])
               /\ users'[u] # users[u] =>
                    IF r.trigger = "scheduled"
                    THEN users'[u].lastScheduledRefreshAt = now
                    ELSE users'[u].lastManualRefreshAt = now
    ]_vars

\* a scheduled run has stamped u1 after u1's manual refresh, whose
\* timestamp is still the earlier one
C26_Witness ==
  /\ users["u1"].lastManualRefreshAt # NoTime
  /\ users["u1"].lastScheduledRefreshAt # NoTime
  /\ TimeLT(users["u1"].lastManualRefreshAt, users["u1"].lastScheduledRefreshAt)
  /\ procs["r1"].op = "refreshAllUsers"
\* ------------------------------------------------------ rejected requests
\* the variables of every collection
storeVars == <<users, userShows, shows, nextToken, cacheVars, watchRecords>>

\* C27: the step that rejects a manual refresh with 429 changes nothing that
\* is stored, the rejected request has made no call (no write of
\* lastManualRefreshAt, no login, no show write), lastManualRefreshAt changes
\* only in steps of requests that were not rejected, and a request whose
\* read comes 15 minutes or more after the lastManualRefreshAt it reads is
\* not rejected.
C27_RejectedChangesNothing ==
  /\ [](\A p \in Procs :
          LET r == procs[p]
          IN CooldownRead(r) =>
               /\ r.resp.status = 429 => r.calls = <<>> /\ r.pc = "done"
               /\ TimeLE(AddMs(r.lastManual, 15 * 60 * 1000), r.throttleAt) =>
                    r.resp.status # 429)
  /\ [][LET r == procs["r1"]
        IN /\ (r.pc = "throttle" /\ procs'["r1"].resp.status = 429) => UNCHANGED storeVars
           /\ r.resp.status = 429 => UNCHANGED storeVars
           /\ users' # users => r.op = "refreshShowsNow" /\ r.resp.status # 429
       ]_vars

\* after a request was rejected the request made exactly 15 minutes after
\* the recorded refresh is let through and has written lastManualRefreshAt
C27_Witness ==
  LET r == procs["r1"]
  IN /\ requests = 2
     /\ CooldownRead(r)
     /\ r.lastManual = T0
     /\ r.throttleAt = AddMs(T0, 15 * 60 * 1000)
     /\ Len(OkCallsOf(r, "setLastManualRefreshAt")) = 1
     /\ r.resp.status # 429
\* ---------------------------------------------------- the cooldown consumed
\* the request was let through by the cooldown check and has made its
\* up-front write
PassedCooldown(r) ==
  CooldownRead(r) /\ r.resp.status # 429 /\ r.pc # "recordRequest"

\* C28: a manual refresh that was let through has written lastManualRefreshAt
\* as its first call, before any call of refreshUser, so the stored value is
\* a time at or after the request whatever the refresh does; a refresh
\* answered 400 or 500 has not written it again, and a further request that
\* reads that value less than 15 minutes later is answered 429; a refresh
\* answered 200 has written it a second time, with the time of completion,
\* and a further request is answered 429 exactly when it comes less than 15
\* minutes after the value it reads.
C28_CooldownConsumed ==
  /\ [](\A p \in Procs :
          LET r == procs[p]
              u == r.userId
          IN PassedCooldown(r) =>
               /\ r.calls # <<>>
               /\ r.calls[1] = Call("setLastManualRefreshAt", u, "", TRUE, 0)
               /\ users[u].lastManualRefreshAt # NoTime
               /\ TimeLE(r.throttleAt, users[u].lastManualRefreshAt)
               /\ (r.pc = "done" /\ r.resp.status = 200) =>
                    Len(OkCallsOf(r, "recordRefreshTimestamp")) = 1
               /\ (r.pc = "done" /\ r.resp.status \in {400, 500}) =>
                    /\ Len(OkCallsOf(r, "recordRefreshTimestamp")) = 0
                    /\ \A q \in Procs \ {p} :
                         LET s == procs[q]
                         IN (/\ CooldownRead(s)
                             /\ s.userId = u
                             /\ s.lastManual = r.throttleAt
                             /\ TimeLT(s.throttleAt, AddMs(r.throttleAt, 15 * 60 * 1000))) =>
                              s.resp.status = 429)
  /\ [](\A q \in Procs :
          CooldownRead(procs[q]) =>
            (procs[q].resp.status = 429 <=>
               /\ procs[q].lastManual # NoTime
               /\ TimeLT(procs[q].throttleAt, AddMs(procs[q].lastManual, 15 * 60 * 1000))))
  /\ [][\A p \in Procs :
          /\ (procs[p].pc = "recordRequest" /\ procs'[p].pc # "recordRequest") =>
               /\ procs[p].calls = <<>>
               /\ users'[procs[p].userId].lastManualRefreshAt = now
          /\ (/\ procs[p].op = "refreshShowsNow"
              /\ procs[p].pc = "recordRefresh"
              /\ procs'[p].resp.status = 200) =>
               users'[procs[p].userId].lastManualRefreshAt = now
       ]_vars

\* a refresh let through at T0 took 899001 ms and was answered 200; a
\* request 15 minutes after T0 reads the time of completion and gets 429
C28_Witness ==
  \E p, q \in Procs :
    LET r == procs[p]
        s == procs[q]
    IN /\ p # q
       /\ PassedCooldown(r)
       /\ r.throttleAt = T0
       /\ r.pc = "done"
       /\ r.resp.status = 200
       /\ CooldownRead(s)
       /\ s.throttleAt = AddMs(T0, 15 * 60 * 1000)
       /\ s.lastManual = AddMs(T0, 899001)
       /\ s.resp.status = 429
\* --------------------------------------------------- batches and the flag
RECURSIVE ConcatChunks(_)
ConcatChunks(chunks) ==
  IF chunks = <<>> THEN <<>> ELSE Head(chunks) \o ConcatChunks(Tail(chunks))

\* a fetchEpisodesPage or commitBatch call of the request has failed
FetchOrCommitFailed(r) ==
  \E i \in 1..Len(r.calls) :
    r.calls[i].kind \in {"fetchEpisodesPage", "commitBatch"} /\ ~r.calls[i].ok

\* C29: the episodes fetchAllEpisodes returned are cut into chunks of 1 to
\* 400 episodes that together are the fetched list, each episode in one
\* chunk, and are committed chunk by chunk in order; a getEpisodes request
\* writes hasAllEpisodes only after fetchAllEpisodes has returned and every
\* chunk has been committed, so that every fetched episode is in the episode
\* cache; a request with a failed fetch or a failed commit makes no flag
\* write, is answered 500 get_episodes_failed, and the chunks it committed
\* before are in the episode cache.
C29_FlagAfterBatches ==
  \A p \in Procs :
    LET r == procs[p]
        chunks == ChunksOf(r.all)
        commits == CallsOf(r, "commitBatch")
        committed == Len(OkCallsOf(r, "commitBatch"))
        flagAt == FirstCall(r, "setHasAllEpisodes")
    IN r.op = "getEpisodes" =>
         /\ ConcatChunks(chunks) = r.all
         /\ \A i \in 1..Len(chunks) : Len(chunks[i]) >= 1 /\ Len(chunks[i]) <= 400
         /\ \A i \in 1..Len(commits) : i <= Len(chunks) /\ commits[i].n = Len(chunks[i])
         /\ \A i \in 1..committed : commits[i].ok
         /\ \A i \in 1..committed :
              \A k \in 1..Len(chunks[i]) : chunks[i][k] \in cacheEpisodes[r.tvdbId]
         /\ commits # <<>> => FetchReturned(r)
         /\ flagAt > 0 =>
              /\ FetchReturned(r)
              /\ ~FetchOrCommitFailed(r)
              /\ committed = Len(chunks)
              /\ \A i \in 1..Len(r.calls) :
                   r.calls[i].kind \in {"fetchEpisodesPage", "commitBatch"} => i < flagAt
              /\ \A k \in 1..Len(r.all) : r.all[k] \in cacheEpisodes[r.tvdbId]
         /\ FetchOrCommitFailed(r) =>
              /\ flagAt = 0
              /\ r.pc = "done"
              /\ r.resp.status = 500
              /\ r.resp.code = "get_episodes_failed"

\* the third batch of a show of 2500 fetched episodes failed: the 800
\* episodes of the first two batches are cached and the flag is not set
C29_Witness ==
  \E p \in Procs :
    LET r == procs[p]
    IN /\ r.op = "getEpisodes"
       /\ Len(r.all) = 2500
       /\ Len(OkCallsOf(r, "commitBatch")) = 2
       /\ FetchOrCommitFailed(r)
       /\ Cardinality(cacheEpisodes[r.tvdbId]) = 800
       /\ ~showsCache[r.tvdbId].hasAllEpisodes
       /\ r.resp.status = 500
\* ------------------------------------------------------ superseded searches
\* run k was started for another debounced text than the current one, is
\* not the most recent run, or the dialog is or has been closed since
SupersededRun(k) ==
  \/ k # Len(searchRuns)
  \/ searchRuns[k].debounced # debouncedSearch
  \/ searchRuns[k].closed
  \/ ~showAddDialog

\* the step is the one in which run k leaves its try block
Settles(k) == searchRuns[k].pc # "done" /\ searchRuns'[k].pc = "done"

\* the step shows results, shows the error of a request or ends "Searching..."
AppliesOutcome ==
  \/ searchResults' # searchResults /\ searchResults' # <<>>
  \/ searchError' # searchError
       /\ searchError' \notin {NoError, "Missing project configuration for search."}
  \/ searching /\ ~searching'

====
